---- MODULE Spec2Model ----
(***************************************************************************)
(* Triangular-grid navigation core of MirrorMurder: Triangle and           *)
(* TriangularGrid (grid_system.js), Character (character.js), GridGraph    *)
(* (grid_graph.js), GameState with its A* pursuit (game_state.js) and the  *)
(* MovementSystem phase machine (movement_system.js).                      *)
(*                                                                         *)
(* A grid value is a record [rows, triangles, numRows]: rows is the jagged *)
(* array of triangle references (keys <<row, col>>), triangles the         *)
(* "row,col" -> Triangle lookup.  Row and column indices are 0-based as in *)
(* the source; TLA+ sequences are 1-based, so row r is rows[r + 1].        *)
(***************************************************************************)
EXTENDS Integers, Sequences, FiniteSets, TLC

VARIABLES grid, gen, player, enemy, turnCounter, gameGrid, gridGraph,
          currentPhase, keysPressed, last

vars == <<grid, gen, player, enemy, turnCounter, gameGrid, gridGraph,
          currentPhase, keysPressed, last>>

(***************************************************************************)
(* Bounds of the model                                                     *)
(***************************************************************************)
\* largest triangle count of a grid built by initialize in the grid specification
MaxTriangles == 4
\* largest triangle count of a map text
MaxMapTriangles == 2
\* largest triangle count of a generated grid
MaxGenTriangles == 6
\* largest triangle count of a grid the path search runs on
MaxPathTriangles == 6
\* largest triangle count of a grid the game is played on
MaxGameTriangles == 3
\* largest number of turns played
MaxTurns == 2
\* largest number of keys held down together
MaxKeysDown == 1

\* the longest run of rotations that is followed from one orientation
MaxRotations == 3

(***************************************************************************)
(* Enumerations                                                            *)
(***************************************************************************)
EMPTY == "empty"

MIRROR == "mirror"

SideType == {EMPTY, MIRROR}

\* the own properties of Triangle.sides / Triangle.neighbors, in source order
SideNames == <<"left", "right", "third">>

Sides == {"left", "right", "third"}

\* a null reference to a triangle
NoTriangle == <<>>

\* a null side name
NoSide == "null"

Min(a, b) == IF a < b THEN a ELSE b

Max(a, b) == IF a > b THEN a ELSE b

Abs(x) == IF x < 0 THEN -x ELSE x

(***************************************************************************)
(* Triangle                                                                *)
(***************************************************************************)
Triangle(row, col, pointsUp) ==
    [row |-> row, col |-> col, pointsUp |-> pointsUp,
     neighbors |-> [s \in Sides |-> NoTriangle],
     sides |-> [s \in Sides |-> EMPTY]]

\* a correspondence that takes the neighbor's side to have the same name
GetNeighborCorrespondingSideSame(side) ==
    IF side \in {"left", "right", "third"} THEN side ELSE NoSide

GetNeighborCorrespondingSide(side) ==
    IF side = "left" THEN "right"
    ELSE IF side = "right" THEN "left"
    ELSE IF side = "third" THEN "third"
    ELSE NoSide

\* setSideState that forgets the neighbor's copy of the side
SetSideStateOwnOnly(tris, k, side, state, updateNeighbor) ==
    IF side \in DOMAIN tris[k].sides
    THEN [tris EXCEPT ![k].sides[side] = state]
    ELSE tris

\* a setSideState that writes the neighbor's side of the same name
SetSideStateSameName(tris, k, side, state, updateNeighbor) ==
    IF side \in DOMAIN tris[k].sides
    THEN LET own == [tris EXCEPT ![k].sides[side] = state]
             nb  == tris[k].neighbors[side]
         IN  IF updateNeighbor /\ nb # NoTriangle
             THEN [own EXCEPT ![nb].sides[side] = state]
             ELSE own
    ELSE tris

\* a setSideState without the hasOwnProperty test, which takes any other name for third
RECURSIVE SetSideStateAnyName(_, _, _, _, _)
SetSideStateAnyName(tris, k, side, state, updateNeighbor) ==
    LET name == IF side \in DOMAIN tris[k].sides THEN side ELSE "third"
        own  == [tris EXCEPT ![k].sides[name] = state]
        nb   == tris[k].neighbors[name]
    IN  IF updateNeighbor /\ nb # NoTriangle
        THEN SetSideStateAnyName(own, nb, GetNeighborCorrespondingSide(name), state, FALSE)
        ELSE own

\* Triangle.setSideState on the triangle with key k of the lookup tris;
\* the neighbor call passes updateNeighbor = FALSE
RECURSIVE SetSideState(_, _, _, _, _)
SetSideState(tris, k, side, state, updateNeighbor) ==
    IF side \in DOMAIN tris[k].sides
    THEN LET own == [tris EXCEPT ![k].sides[side] = state]
             nb  == tris[k].neighbors[side]
         IN  IF updateNeighbor /\ nb # NoTriangle
             THEN SetSideState(own, nb, GetNeighborCorrespondingSide(side), state, FALSE)
             ELSE own
    ELSE tris

GetSideState(tris, k, side) == tris[k].sides[side]

\* Triangle.setAllSides with all three properties defined
SetAllSides(tris, k, sideStates, updateNeighbors) ==
    LET t1 == SetSideState(tris, k, "left", sideStates.left, updateNeighbors)
        t2 == SetSideState(t1, k, "right", sideStates.right, updateNeighbors)
    IN  SetSideState(t2, k, "third", sideStates.third, updateNeighbors)

(***************************************************************************)
(* TriangularGrid                                                          *)
(***************************************************************************)
EmptyLookup == [k \in {} |-> Triangle(0, 0, TRUE)]

\* TriangularGrid.constructor
NewGrid == [rows |-> <<>>, triangles |-> EmptyLookup, numRows |-> 0]

HasTriangle(g, row, col) == <<row, col>> \in DOMAIN g.triangles

GetRowCount(g) == Len(g.rows)

GetRowLength(g, rowIndex) ==
    IF rowIndex >= 0 /\ rowIndex < Len(g.rows) THEN Len(g.rows[rowIndex + 1]) ELSE 0

\* orientation of the triangle at (row, col): rows alternate their starting orientation
PointsUp(row, col) == IF row % 2 = 0 THEN col % 2 = 0 ELSE col % 2 # 0

\* a setupNeighbors that links the left neighbor from the third column on only
NeighborsOfLeftLate(g, row, col) ==
    [s \in Sides |->
        CASE s = "left" ->
               IF col > 1 THEN <<row, col - 1>> ELSE g.triangles[<<row, col>>].neighbors[s]
          [] s = "right" ->
               IF col < Len(g.rows[row + 1]) - 1 THEN <<row, col + 1>>
               ELSE g.triangles[<<row, col>>].neighbors[s]
          [] OTHER ->
               IF g.triangles[<<row, col>>].pointsUp
               THEN IF row < Len(g.rows) - 1 /\ col < Len(g.rows[row + 2])
                    THEN <<row + 1, col>> ELSE g.triangles[<<row, col>>].neighbors[s]
               ELSE IF row > 0 /\ col < Len(g.rows[row])
                    THEN <<row - 1, col>> ELSE g.triangles[<<row, col>>].neighbors[s]]

\* TriangularGrid.setupNeighbors: the neighbor references of the triangle at (row, col)
NeighborsOf(g, row, col) ==
    [s \in Sides |->
        CASE s = "left" ->
               IF col > 0 THEN <<row, col - 1>> ELSE g.triangles[<<row, col>>].neighbors[s]
          [] s = "right" ->
               IF col < Len(g.rows[row + 1]) - 1 THEN <<row, col + 1>>
               ELSE g.triangles[<<row, col>>].neighbors[s]
          [] OTHER ->
               IF g.triangles[<<row, col>>].pointsUp
               THEN IF row < Len(g.rows) - 1 /\ col < Len(g.rows[row + 2])
                    THEN <<row + 1, col>> ELSE g.triangles[<<row, col>>].neighbors[s]
               ELSE IF row > 0 /\ col < Len(g.rows[row])
                    THEN <<row - 1, col>> ELSE g.triangles[<<row, col>>].neighbors[s]]

\* the triangles the loops over this.rows visit, in row-major order
RECURSIVE Flatten(_)
Flatten(seqs) == IF seqs = <<>> THEN <<>> ELSE Head(seqs) \o Flatten(Tail(seqs))

RowKeys(g) == {Flatten(g.rows)[i] : i \in 1..Len(Flatten(g.rows))}

SetupNeighbors(g) ==
    [g EXCEPT !.triangles =
        [k \in DOMAIN g.triangles |->
            IF k \in RowKeys(g)
            THEN [g.triangles[k] EXCEPT !.neighbors = NeighborsOf(g, k[1], k[2])]
            ELSE g.triangles[k]]]

\* TriangularGrid.initialize
Initialize(numRowsArg, trianglesPerRow) ==
    LET keys == {<<r, c>> : r \in 0..(numRowsArg - 1), c \in 0..(trianglesPerRow - 1)}
        created ==
            [rows |-> [i \in 1..numRowsArg |-> [j \in 1..trianglesPerRow |-> <<i - 1, j - 1>>]],
             triangles |-> [k \in keys |-> Triangle(k[1], k[2], PointsUp(k[1], k[2]))],
             numRows |-> numRowsArg]
    IN  SetupNeighbors(created)

(***************************************************************************)
(* Map text.  A text is a sequence of one-character strings.               *)
(***************************************************************************)
IsWhitespace(ch) == ch \in {" ", "\n", "\t"}

RECURSIVE TrimStart(_)
TrimStart(s) ==
    IF s = <<>> THEN s
    ELSE IF IsWhitespace(Head(s)) THEN TrimStart(Tail(s)) ELSE s

RECURSIVE TrimEnd(_)
TrimEnd(s) ==
    IF s = <<>> THEN s
    ELSE IF IsWhitespace(s[Len(s)]) THEN TrimEnd(SubSeq(s, 1, Len(s) - 1)) ELSE s

\* String.prototype.trim
Trim(s) == TrimEnd(TrimStart(s))

\* String.prototype.split(sep) for a one-character separator
RECURSIVE SplitOn(_, _, _, _)
SplitOn(s, sep, cur, acc) ==
    IF s = <<>> THEN Append(acc, cur)
    ELSE IF Head(s) = sep THEN SplitOn(Tail(s), sep, <<>>, Append(acc, cur))
    ELSE SplitOn(Tail(s), sep, Append(cur, Head(s)), acc)

Split(s, sep) == SplitOn(s, sep, <<>>, <<>>)

\* String.prototype.split(/\s+/): a run of whitespace is one separator
RECURSIVE SplitRuns(_, _, _, _)
SplitRuns(s, cur, acc, inRun) ==
    IF s = <<>> THEN Append(acc, cur)
    ELSE IF IsWhitespace(Head(s))
         THEN IF inRun THEN SplitRuns(Tail(s), cur, acc, TRUE)
              ELSE SplitRuns(Tail(s), <<>>, Append(acc, cur), TRUE)
         ELSE SplitRuns(Tail(s), Append(cur, Head(s)), acc, FALSE)

SplitWhitespace(s) == SplitRuns(s, <<>>, <<>>, FALSE)

\* sideCharMap[field] || SideType.EMPTY
SideCharMap(field) == IF field = <<"m">> THEN MIRROR ELSE EMPTY

\* a first pass that rejects only definitions with fewer than 3 fields
RECURSIVE ParseRowAtLeast3(_, _, _, _, _)
ParseRowAtLeast3(tris, defs, row, col, rowTriangles) ==
    IF col >= Len(defs)
    THEN [triangles |-> tris, rowTriangles |-> rowTriangles, error |-> FALSE, col |-> col]
    ELSE LET sides == Split(defs[col + 1], "|")
         IN  IF Len(sides) < 3
             THEN [triangles |-> tris, rowTriangles |-> rowTriangles, error |-> TRUE, col |-> col]
             ELSE LET k == <<row, col>>
                      t == [Triangle(row, col, PointsUp(row, col)) EXCEPT !.sides =
                               [left |-> SideCharMap(sides[1]), right |-> SideCharMap(sides[2]),
                                third |-> SideCharMap(sides[3])]]
                  IN  ParseRowAtLeast3((k :> t) @@ tris, defs, row, col + 1,
                                       Append(rowTriangles, k))

\* first pass of initializeFromMap over the definitions of one row, from column col on;
\* error is TRUE when a definition does not have 3 fields (the throw)
RECURSIVE ParseRow(_, _, _, _, _)
ParseRow(tris, defs, row, col, rowTriangles) ==
    IF col >= Len(defs)
    THEN [triangles |-> tris, rowTriangles |-> rowTriangles, error |-> FALSE, col |-> col]
    ELSE LET sides == Split(defs[col + 1], "|")
         IN  IF Len(sides) # 3
             THEN [triangles |-> tris, rowTriangles |-> rowTriangles, error |-> TRUE, col |-> col]
             ELSE LET k  == <<row, col>>
                      t0 == Triangle(row, col, PointsUp(row, col))
                      t  == [t0 EXCEPT !.sides =
                                [s \in Sides |->
                                    CASE s = "left"  -> SideCharMap(sides[1])
                                      [] s = "right" -> SideCharMap(sides[2])
                                      [] OTHER       -> SideCharMap(sides[3])]]
                      added == [x \in (DOMAIN tris) \cup {k} |-> IF x = k THEN t ELSE tris[x]]
                  IN  ParseRow(added, defs, row, col + 1, Append(rowTriangles, k))

RECURSIVE ParseRows(_, _, _)
ParseRows(g, lines, row) ==
    IF row >= Len(lines)
    THEN [grid |-> g, error |-> FALSE, row |-> row, col |-> 0]
    ELSE LET r == ParseRow(g.triangles, SplitWhitespace(Trim(lines[row + 1])), row, 0, <<>>)
         IN  IF r.error
             THEN [grid |-> [g EXCEPT !.triangles = r.triangles],
                   error |-> TRUE, row |-> row, col |-> r.col]
             ELSE ParseRows([g EXCEPT !.triangles = r.triangles,
                                      !.rows = Append(g.rows, r.rowTriangles)],
                            lines, row + 1)

\* a second pass in which the side of the triangle being visited always wins
SyncSideCurrentWins(tris, k, side) ==
    LET nb == tris[k].neighbors[side]
    IN  IF nb # NoTriangle
        THEN SetSideState(tris, nb, GetNeighborCorrespondingSide(side),
                          GetSideState(tris, k, side), FALSE)
        ELSE tris

\* second pass of initializeFromMap for one side of one triangle
SyncSide(tris, k, side) ==
    LET nb == tris[k].neighbors[side]
    IN  IF nb # NoTriangle
        THEN LET neighborSide  == GetNeighborCorrespondingSide(side)
                 currentState  == GetSideState(tris, k, side)
                 neighborState == GetSideState(tris, nb, neighborSide)
                 finalState ==
                     IF currentState # EMPTY /\ neighborState = EMPTY THEN currentState
                     ELSE IF currentState = EMPTY /\ neighborState # EMPTY THEN neighborState
                     ELSE currentState
             IN  SetSideState(SetSideState(tris, k, side, finalState, FALSE),
                              nb, neighborSide, finalState, FALSE)
        ELSE tris

RECURSIVE SyncAll(_, _)
SyncAll(tris, keys) ==
    IF keys = <<>> THEN tris
    ELSE SyncAll(SyncSide(SyncSide(SyncSide(tris, Head(keys), "left"),
                                   Head(keys), "right"), Head(keys), "third"),
                 Tail(keys))

\* TriangularGrid.initializeFromMap: the grid it leaves and whether it threw
InitializeFromMap(mapString) ==
    LET lines  == Split(Trim(mapString), "\n")
        start  == [rows |-> <<>>, triangles |-> EmptyLookup, numRows |-> Len(lines)]
        parsed == ParseRows(start, lines, 0)
    IN  IF parsed.error THEN parsed
        ELSE LET wired == SetupNeighbors(parsed.grid)
             IN  [parsed EXCEPT !.grid =
                     [wired EXCEPT !.triangles = SyncAll(wired.triangles, Flatten(wired.rows))]]

SideTypeMap(state) == IF state = MIRROR THEN "m" ELSE "e"

RECURSIVE JoinWith(_, _)
JoinWith(parts, sep) ==
    IF parts = <<>> THEN <<>>
    ELSE IF Len(parts) = 1 THEN parts[1]
    ELSE parts[1] \o <<sep>> \o JoinWith(Tail(parts), sep)

\* an export that writes the third side before the right side
ExportToMapThirdFirst(g) ==
    JoinWith([r \in 1..Len(g.rows) |->
                JoinWith([c \in 1..Len(g.rows[r]) |->
                            <<SideTypeMap(GetSideState(g.triangles, g.rows[r][c], "left")), "|",
                              SideTypeMap(GetSideState(g.triangles, g.rows[r][c], "third")), "|",
                              SideTypeMap(GetSideState(g.triangles, g.rows[r][c], "right"))>>],
                         " ")],
             "\n")

\* TriangularGrid.exportToMap
ExportToMap(g) ==
    JoinWith([r \in 1..Len(g.rows) |->
                JoinWith([c \in 1..Len(g.rows[r]) |->
                            <<SideTypeMap(GetSideState(g.triangles, g.rows[r][c], "left")), "|",
                              SideTypeMap(GetSideState(g.triangles, g.rows[r][c], "right")), "|",
                              SideTypeMap(GetSideState(g.triangles, g.rows[r][c], "third"))>>],
                         " ")],
             "\n")

(***************************************************************************)
(* generateRandomGrid.  The random number generator is the environment:    *)
(* every rng() draw is a free choice of the index it selects.  A density   *)
(* is a rational num / den; the caller's mirrorDensity is given in         *)
(* hundredths, or is not a finite number.                                  *)
(***************************************************************************)
\* a seeding loop that leaves the sides as initialize made them
SeedMirrorsSkipped(tris, keys) == tris

RECURSIVE SeedMirrors(_, _)
SeedMirrors(tris, keys) ==
    IF keys = <<>> THEN tris
    ELSE SeedMirrors(SetAllSides(tris, Head(keys),
                                 [left |-> MIRROR, right |-> MIRROR, third |-> MIRROR], TRUE),
                     Tail(keys))

\* the characters of `${row},${col}` as numbers ordered like their char codes (',' < '0')
Digits(n) == IF n < 10 THEN <<n>> ELSE <<n \div 10, n % 10>>

KeyChars(k) == Digits(k[1]) \o <<-1>> \o Digits(k[2])

\* JavaScript's < on two strings
RECURSIVE StringLess(_, _)
StringLess(a, b) ==
    IF b = <<>> THEN FALSE
    ELSE IF a = <<>> THEN TRUE
    ELSE IF Head(a) # Head(b) THEN Head(a) < Head(b)
    ELSE StringLess(Tail(a), Tail(b))

\* the edge collection loop for one side of one triangle
CollectSide(tris, acc, k, side) ==
    LET neighbor == tris[k].neighbors[side]
    IN  IF neighbor # NoTriangle
        THEN IF StringLess(KeyChars(k), KeyChars(neighbor))
             THEN [acc EXCEPT !.internalEdges =
                      Append(@, [a |-> k, aSide |-> side, b |-> neighbor,
                                 bSide |-> GetNeighborCorrespondingSide(side),
                                 isBoundary |-> FALSE])]
             ELSE acc
        ELSE [acc EXCEPT !.boundaryEdges =
                 Append(@, [a |-> k, aSide |-> side, isBoundary |-> TRUE])]

RECURSIVE CollectEdges(_, _, _)
CollectEdges(tris, keys, acc) ==
    IF keys = <<>> THEN acc
    ELSE CollectEdges(tris, Tail(keys),
            CollectSide(tris,
                CollectSide(tris, CollectSide(tris, acc, Head(keys), "left"),
                            Head(keys), "right"),
                Head(keys), "third"))

\* edgeByPair.get(`${aKey}|${bKey}`): the last edge stored for the pair, 0 when none
EdgeByPair(internalEdges, aKey, bKey) ==
    LET hits == {i \in 1..Len(internalEdges) :
                    \/ internalEdges[i].a = aKey /\ internalEdges[i].b = bKey
                    \/ internalEdges[i].a = bKey /\ internalEdges[i].b = aKey}
    IN  IF hits = {} THEN 0 ELSE CHOOSE i \in hits : \A j \in hits : j <= i

\* openEdge
OpenEdge(tris, edge) == SetSideState(tris, edge.a, edge.aSide, EMPTY, TRUE)

\* Number.isFinite(mirrorDensity) ? Math.max(0, Math.min(1, mirrorDensity)) : 0.65
InitialDensity(mirrorDensity) ==
    IF mirrorDensity.finite
    THEN [num |-> Max(0, Min(100, mirrorDensity.pct)), den |-> 100]
    ELSE [num |-> 65, den |-> 100]

\* desiredDensity after the two feasibility clamps
DesiredDensity(mirrorDensity, totalEdges, minOpenEdges, maxOpenEdges) ==
    LET d0 == InitialDensity(mirrorDensity)
        d1 == IF d0.num * totalEdges > (totalEdges - minOpenEdges) * d0.den
              THEN [num |-> totalEdges - minOpenEdges, den |-> totalEdges] ELSE d0
    IN  IF d1.num * totalEdges < (totalEdges - maxOpenEdges) * d1.den
        THEN [num |-> totalEdges - maxOpenEdges, den |-> totalEdges] ELSE d1

\* Math.round(totalEdges * (1 - desiredDensity))
TargetOpenEdges(totalEdges, desiredDensity) ==
    (2 * totalEdges * (desiredDensity.den - desiredDensity.num) + desiredDensity.den)
        \div (2 * desiredDensity.den)

\* the candidates of one iteration of the carve loop
Candidates(tris, internalEdges, visited, current) ==
    SelectSeq([i \in 1..3 |->
                  [nb |-> tris[current].neighbors[SideNames[i]],
                   edge |-> IF tris[current].neighbors[SideNames[i]] = NoTriangle THEN 0
                            ELSE EdgeByPair(internalEdges, current,
                                            tris[current].neighbors[SideNames[i]])]],
              LAMBDA c : c.nb # NoTriangle /\ c.nb \notin visited /\ c.edge # 0)

\* shuffle: draws[i] is the j drawn when the loop index is i (0-based positions)
RECURSIVE Shuffle(_, _, _)
Shuffle(arr, draws, i) ==
    IF i <= 0 THEN arr
    ELSE Shuffle([arr EXCEPT ![i + 1] = arr[draws[i] + 1], ![draws[i] + 1] = arr[i + 1]],
                 draws, i - 1)

RECURSIVE OpenFirst(_, _, _)
OpenFirst(tris, edges, n) ==
    IF n <= 0 THEN tris
    ELSE OpenFirst(OpenEdge(tris, Head(edges)), Tail(edges), n - 1)

(***************************************************************************)
(* The seeded random numbers of generateRandomGrid.  A 32-bit word is kept *)
(* as its two 16-bit halves [hi, lo], and every operation is computed on   *)
(* halves and bytes so that no intermediate value exceeds 32 bits.         *)
(***************************************************************************)
Word(hi, lo) == [hi |-> hi, lo |-> lo]

\* bitwise operations on numbers below 2^bits
RECURSIVE BitXor(_, _, _)
BitXor(a, b, bits) ==
    IF bits = 0 THEN 0
    ELSE ((a + b) % 2) + 2 * BitXor(a \div 2, b \div 2, bits - 1)

RECURSIVE BitOr(_, _, _)
BitOr(a, b, bits) ==
    IF bits = 0 THEN 0
    ELSE Max(a % 2, b % 2) + 2 * BitOr(a \div 2, b \div 2, bits - 1)

RECURSIVE Pow2(_)
Pow2(k) == IF k = 0 THEN 1 ELSE 2 * Pow2(k - 1)

\* x ^ y
Xor32(x, y) == Word(BitXor(x.hi, y.hi, 16), BitXor(x.lo, y.lo, 16))

\* x | c for a constant c below 2^16
OrLow(x, c) == Word(x.hi, BitOr(x.lo, c, 16))

\* x >>> k for 0 < k < 16
ShiftRight(x, k) ==
    Word(x.hi \div Pow2(k), (x.lo \div Pow2(k)) + (x.hi % Pow2(k)) * Pow2(16 - k))

\* (x + y) modulo 2^32
Add32(x, y) ==
    Word((x.hi + y.hi + ((x.lo + y.lo) \div 65536)) % 65536, (x.lo + y.lo) % 65536)

\* the low 16 bits of a * b, for a and b below 2^16
MulLow16(a, b) == ((a % 256) * b + (((a \div 256) * b) % 256) * 256) % 65536

\* the bits above the low 16 of a * b, for a and b below 2^16
MulHigh16(a, b) ==
    (((a % 256) * b + (((a \div 256) * b) % 256) * 256) \div 65536) + (((a \div 256) * b) \div 256)

\* Math.imul(x, y)
Imul(x, y) ==
    Word((MulHigh16(x.lo, y.lo) + MulLow16(x.hi, y.lo) + MulLow16(x.lo, y.hi)) % 65536,
         MulLow16(x.lo, y.lo))

\* rngSeed >>> 0 for a number seed
NumberSeed(n) == Word(n \div 65536, n % 65536)

\* the hash of a string seed, given as the char codes of String(rngSeed)
RECURSIVE StringSeedFrom(_, _)
StringSeedFrom(h, codes) ==
    IF codes = <<>> THEN h
    ELSE StringSeedFrom(Imul(Xor32(h, Word(0, Head(codes))), Word(256, 403)), Tail(codes))

StringSeed(codes) == StringSeedFrom(Word(33052, 40389), codes)

\* seedNum of a seed [kind, value]; kind is "number" or "string"
SeedNum(rngSeed) ==
    IF rngSeed.kind = "number" THEN NumberSeed(rngSeed.value) ELSE StringSeed(rngSeed.value)

\* one call of the mulberry32 closure on its state a: the new state and the 32-bit
\* numerator of the value returned (the value is numerator / 4294967296)
Mulberry32(a) ==
    LET a1 == Add32(a, Word(27947, 31221))
        t1 == Imul(Xor32(a1, ShiftRight(a1, 15)), OrLow(a1, 1))
        t2 == Xor32(t1, Add32(t1, Imul(Xor32(t1, ShiftRight(t1, 7)), OrLow(t1, 61))))
    IN  [a |-> a1, value |-> Xor32(t2, ShiftRight(t2, 14))]

\* Math.floor(value * n) for value = numerator / 4294967296 and small n
FloorTimes(numerator, n) == (numerator.hi * n + ((numerator.lo * n) \div 65536)) \div 65536

\* rngSeed = null
NoSeed == [kind |-> "none", value |-> 0]

\* the rng built at the start of generateRandomGrid: Math.random, or the mulberry32
\* closure with its state a
MakeRng(rngSeed) ==
    IF rngSeed.kind = "none" THEN [seeded |-> FALSE, a |-> Word(0, 0)]
    ELSE [seeded |-> TRUE, a |-> SeedNum(rngSeed)]

\* the rng after one call
NextRng(rng) == IF rng.seeded THEN [rng EXCEPT !.a = Mulberry32(rng.a).a] ELSE rng

\* the rng after k calls
RECURSIVE RngAfter(_, _)
RngAfter(rng, k) == IF k = 0 THEN rng ELSE RngAfter(NextRng(rng), k - 1)

\* a pick that never consults the seed
PickRandomUnseeded(rng, n) == 0..(n - 1)

\* Math.floor(rng() * n): the indices (0-based) the call can produce.  Math.random can
\* produce any of them, the seeded closure produces one.
PickRandom(rng, n) ==
    IF rng.seeded THEN {FloorTimes(Mulberry32(rng.a).value, n)} ELSE 0..(n - 1)

\* the values of j that shuffle can draw on an array of length n, as draws[i] for the
\* loop index i; the loop runs from i = n - 1 down to 1 and calls rng once per turn
ShuffleDraws(rng, n) ==
    {draws \in [1..(n - 1) -> 0..(n - 1)] :
        \A i \in 1..(n - 1) : draws[i] \in PickRandom(RngAfter(rng, n - 1 - i), i + 1)}

GenIdle ==
    [pc |-> "idle", internalEdges |-> <<>>, boundaryEdges |-> <<>>,
     desiredDensity |-> [num |-> 0, den |-> 1], visited |-> {}, stack |-> <<>>,
     rng |-> MakeRng(NoSeed)]

(***************************************************************************)
(* Character                                                               *)
(***************************************************************************)
\* Object.values(Orientation)
Orientations == <<"left", "right", "third">>

OrientationSet == {"left", "right", "third"}

FORWARD_LEFT == "forward_left"

FORWARD_RIGHT == "forward_right"

\* Character.constructor
NewCharacter == [row |-> 0, col |-> 0, orientation |-> "left"]

\* Character.setOrientation: an orientation that is not one of the three is refused
SetOrientation(ch, orientation) ==
    IF orientation \in OrientationSet THEN [ch EXCEPT !.orientation = orientation] ELSE ch

\* Character.setPosition; NoSide stands for the default orientation = null
SetPosition(ch, row, col, orientation) ==
    LET moved == [ch EXCEPT !.row = row, !.col = col]
    IN  IF orientation # NoSide THEN SetOrientation(moved, orientation) ELSE moved

\* a clockwise rotation whose table for down-pointing triangles exchanges left and third
RotateClockwiseExchange(orientation, pointsUp) ==
    IF pointsUp
    THEN [left |-> "right", right |-> "third", third |-> "left"][orientation]
    ELSE [left |-> "third", third |-> "left", right |-> "right"][orientation]

\* Character.rotateClockwise: the new orientation
RotateClockwise(orientation, pointsUp) ==
    IF pointsUp
    THEN [left |-> "right", right |-> "third", third |-> "left"][orientation]
    ELSE [left |-> "third", third |-> "right", right |-> "left"][orientation]

\* a counter-clockwise rotation that uses the clockwise tables
RotateCounterClockwiseAsClockwise(orientation, pointsUp) ==
    IF pointsUp
    THEN [left |-> "right", right |-> "third", third |-> "left"][orientation]
    ELSE [left |-> "third", third |-> "right", right |-> "left"][orientation]

\* Character.rotateCounterClockwise: the new orientation
RotateCounterClockwise(orientation, pointsUp) ==
    IF pointsUp
    THEN [left |-> "third", third |-> "right", right |-> "left"][orientation]
    ELSE [left |-> "right", right |-> "third", third |-> "left"][orientation]

\* the tables of Character.move with the two directions exchanged
MoveRotationMapExchanged(direction, neighborPointsUp) ==
    IF direction = FORWARD_LEFT
    THEN IF neighborPointsUp
         THEN [left |-> "third", third |-> "right", right |-> "left"]
         ELSE [left |-> "right", right |-> "third", third |-> "left"]
    ELSE IF neighborPointsUp
         THEN [left |-> "right", right |-> "third", third |-> "left"]
         ELSE [left |-> "third", third |-> "right", right |-> "left"]

\* the rotation tables written out in Character.move
MoveRotationMap(direction, neighborPointsUp) ==
    IF direction = FORWARD_RIGHT
    THEN IF neighborPointsUp
         THEN [left |-> "third", third |-> "right", right |-> "left"]
         ELSE [left |-> "right", right |-> "third", third |-> "left"]
    ELSE IF neighborPointsUp
         THEN [left |-> "right", right |-> "third", third |-> "left"]
         ELSE [left |-> "third", third |-> "right", right |-> "left"]

\* a move that validates the direction only after it has moved the character
MoveBeforeValidation(g, ch, direction) ==
    LET unchanged == [ret |-> [success |-> FALSE, row |-> ch.row, col |-> ch.col,
                               orientation |-> ch.orientation],
                      character |-> ch]
    IN  IF ~HasTriangle(g, ch.row, ch.col) THEN unchanged
        ELSE LET currentTriangle == g.triangles[<<ch.row, ch.col>>]
                 sideToCheck == ch.orientation
             IN  IF currentTriangle.neighbors[sideToCheck] = NoTriangle THEN unchanged
                 ELSE LET neighbor == g.triangles[currentTriangle.neighbors[sideToCheck]]
                          enteredFromSide == GetNeighborCorrespondingSide(sideToCheck)
                          newOrientation ==
                              MoveRotationMap(direction, neighbor.pointsUp)[enteredFromSide]
                          moved == [ch EXCEPT !.row = neighbor.row, !.col = neighbor.col,
                                              !.orientation = newOrientation]
                      IN  IF \/ currentTriangle.sides[sideToCheck] # EMPTY
                             \/ direction \notin {FORWARD_RIGHT, FORWARD_LEFT}
                          THEN [ret |-> unchanged.ret, character |-> moved]
                          ELSE [ret |-> [success |-> TRUE, row |-> neighbor.row,
                                         col |-> neighbor.col, orientation |-> newOrientation],
                                character |-> moved]

\* Character.move: the returned record and the character it leaves
Move(g, ch, direction) ==
    LET unchanged == [ret |-> [success |-> FALSE, row |-> ch.row, col |-> ch.col,
                               orientation |-> ch.orientation],
                      character |-> ch]
    IN  IF ~HasTriangle(g, ch.row, ch.col) THEN unchanged
        ELSE LET currentTriangle == g.triangles[<<ch.row, ch.col>>]
                 sideToCheck == ch.orientation
             IN  IF currentTriangle.sides[sideToCheck] # EMPTY THEN unchanged
                 ELSE IF currentTriangle.neighbors[sideToCheck] = NoTriangle THEN unchanged
                 ELSE IF direction \notin {FORWARD_RIGHT, FORWARD_LEFT} THEN unchanged
                 ELSE LET neighbor == g.triangles[currentTriangle.neighbors[sideToCheck]]
                          enteredFromSide == GetNeighborCorrespondingSide(sideToCheck)
                          newOrientation ==
                              MoveRotationMap(direction, neighbor.pointsUp)[enteredFromSide]
                      IN  [ret |-> [success |-> TRUE, row |-> neighbor.row,
                                    col |-> neighbor.col, orientation |-> newOrientation],
                           character |-> [ch EXCEPT !.row = neighbor.row,
                                                    !.col = neighbor.col,
                                                    !.orientation = newOrientation]]

\* a canMove that looks for the neighbor only, not at the state of the side
CanMoveAnySide(g, ch) ==
    IF ~HasTriangle(g, ch.row, ch.col) THEN FALSE
    ELSE g.triangles[<<ch.row, ch.col>>].neighbors[ch.orientation] # NoTriangle

\* Character.canMove
CanMove(g, ch) ==
    IF ~HasTriangle(g, ch.row, ch.col) THEN FALSE
    ELSE IF g.triangles[<<ch.row, ch.col>>].sides[ch.orientation] # EMPTY THEN FALSE
    ELSE g.triangles[<<ch.row, ch.col>>].neighbors[ch.orientation] # NoTriangle

(***************************************************************************)
(* GridGraph.  A node is identified by <<row, col, orientation>>; the      *)
(* graph maps each node to the sequence of its edges, in insertion order.  *)
(***************************************************************************)
\* a null reference to a node
NoNode == <<>>

NullGraph == [null |-> TRUE, nodes |-> <<>>]

\* a rotation that uses the table of up-pointing triangles for every triangle
GetRotatedOrientationUpOnly(currentOrientation, pointsUp, clockwise) ==
    IF clockwise
    THEN [left |-> "right", right |-> "third", third |-> "left"][currentOrientation]
    ELSE [left |-> "third", third |-> "right", right |-> "left"][currentOrientation]

\* GridGraph.getRotatedOrientation
GetRotatedOrientation(currentOrientation, pointsUp, clockwise) ==
    IF clockwise
    THEN IF pointsUp
         THEN [left |-> "right", right |-> "third", third |-> "left"][currentOrientation]
         ELSE [left |-> "third", third |-> "right", right |-> "left"][currentOrientation]
    ELSE IF pointsUp
         THEN [left |-> "third", third |-> "right", right |-> "left"][currentOrientation]
         ELSE [left |-> "right", right |-> "third", third |-> "left"][currentOrientation]

\* a step 1 that creates the nodes of the orientations left and right only
GraphNodeIdsLeftRight(g) ==
    UNION {{<<r, c, o>> : c \in 0..(GetRowLength(g, r) - 1), o \in {"left", "right"}} :
           r \in 0..(GetRowCount(g) - 1)}

\* the nodes created by step 1 of buildFromGrid
GraphNodeIds(g) ==
    UNION {{<<r, c, o>> : c \in 0..(GetRowLength(g, r) - 1), o \in OrientationSet} :
           r \in 0..(GetRowCount(g) - 1)}

GraphEdge(targetNode, edgeType, action) ==
    [targetNode |-> targetNode, edgeType |-> edgeType, action |-> action]

\* the edges buildFromGrid adds to one node: rotations first, then movements
NodeEdges(g, ids, node) ==
    LET triangle == g.triangles[<<node[1], node[2]>>]
        clockwiseNode ==
            <<node[1], node[2], GetRotatedOrientation(node[3], triangle.pointsUp, TRUE)>>
        counterClockwiseNode ==
            <<node[1], node[2], GetRotatedOrientation(node[3], triangle.pointsUp, FALSE)>>
        rotations ==
            (IF clockwiseNode \in ids
             THEN <<GraphEdge(clockwiseNode, "rotation", "clockwise")>> ELSE <<>>)
            \o (IF counterClockwiseNode \in ids
                THEN <<GraphEdge(counterClockwiseNode, "rotation", "counterclockwise")>>
                ELSE <<>>)
        sideToCheck == node[3]
        nb == triangle.neighbors[sideToCheck]
    IN  IF triangle.sides[sideToCheck] = EMPTY /\ nb # NoTriangle
        THEN LET neighbor == g.triangles[nb]
                 enteredFromSide == GetNeighborCorrespondingSide(sideToCheck)
                 forwardLeftNode ==
                     <<neighbor.row, neighbor.col,
                       GetRotatedOrientation(enteredFromSide, neighbor.pointsUp, TRUE)>>
                 forwardRightNode ==
                     <<neighbor.row, neighbor.col,
                       GetRotatedOrientation(enteredFromSide, neighbor.pointsUp, FALSE)>>
             IN  rotations
                 \o (IF forwardLeftNode \in ids
                     THEN <<GraphEdge(forwardLeftNode, "movement", FORWARD_LEFT)>> ELSE <<>>)
                 \o (IF forwardRightNode \in ids
                     THEN <<GraphEdge(forwardRightNode, "movement", FORWARD_RIGHT)>> ELSE <<>>)
        ELSE rotations

\* GridGraph.buildFromGrid
BuildFromGrid(g) ==
    [null |-> FALSE,
     nodes |-> [n \in GraphNodeIds(g) |-> NodeEdges(g, GraphNodeIds(g), n)]]

\* GridGraph.getNode: the node id, or NoNode when the graph has no such node
GetNode(graph, row, col, orientation) ==
    IF <<row, col, orientation>> \in DOMAIN graph.nodes
    THEN <<row, col, orientation>> ELSE NoNode

(***************************************************************************)
(* GameState: the A* search and the enemy pursuit                          *)
(***************************************************************************)
\* GameState.manhattanDistance on two node ids
ManhattanDistance(nodeA, nodeB) == Abs(nodeA[1] - nodeB[1]) + Abs(nodeA[2] - nodeB[2])

\* Map.prototype.set on a Map kept as a function
MapSet(map, key, value) == (key :> value) @@ map

EmptyMap == <<>>

\* a scan whose comparison is reversed: the first entry with the highest fScore
HighestOpen(openSet) ==
    CHOOSE i \in 1..Len(openSet) :
        /\ \A j \in 1..Len(openSet) : openSet[i].fScore >= openSet[j].fScore
        /\ \A j \in 1..(i - 1) : openSet[j].fScore < openSet[i].fScore

\* the scan for the open entry with the lowest fScore: the first entry, in insertion
\* order, that no other entry beats
LowestOpen(openSet) ==
    CHOOSE i \in 1..Len(openSet) :
        /\ \A j \in 1..Len(openSet) : openSet[i].fScore <= openSet[j].fScore
        /\ \A j \in 1..(i - 1) : openSet[j].fScore > openSet[i].fScore

OpenIndex(openSet, id) ==
    LET hits == {i \in 1..Len(openSet) : openSet[i].id = id}
    IN  IF hits = {} THEN 0 ELSE CHOOSE i \in hits : TRUE

RemoveAt(seq, i) == SubSeq(seq, 1, i - 1) \o SubSeq(seq, i + 1, Len(seq))

\* a loop body that opens the neighbor whether or not it was evaluated or reached before
RelaxEdgeAlways(st, currentId, edge, endId) ==
    LET neighborId == edge.targetNode
        tentativeGScore == st.gScore[currentId] + 1
        newFScore == tentativeGScore + ManhattanDistance(neighborId, endId)
        at == OpenIndex(st.openSet, neighborId)
    IN  [st EXCEPT !.cameFrom = MapSet(@, neighborId, currentId),
                   !.gScore = MapSet(@, neighborId, tentativeGScore),
                   !.openSet = IF at = 0
                               THEN Append(@, [id |-> neighborId, fScore |-> newFScore])
                               ELSE [@ EXCEPT ![at].fScore = newFScore]]

\* the body of the loop over current.edges for one edge
RelaxEdge(st, currentId, edge, endId) ==
    LET neighborId == edge.targetNode
        tentativeGScore == st.gScore[currentId] + 1
    IN  IF neighborId \in st.closedSet THEN st
        ELSE IF neighborId \notin DOMAIN st.gScore \/ tentativeGScore < st.gScore[neighborId]
        THEN LET newFScore == tentativeGScore + ManhattanDistance(neighborId, endId)
                 at == OpenIndex(st.openSet, neighborId)
             IN  [st EXCEPT !.cameFrom = MapSet(@, neighborId, currentId),
                            !.gScore = MapSet(@, neighborId, tentativeGScore),
                            !.openSet = IF at = 0
                                        THEN Append(@, [id |-> neighborId, fScore |-> newFScore])
                                        ELSE [@ EXCEPT ![at].fScore = newFScore]]
        ELSE st

\* a loop over current.edges that stops after the first edge
RelaxEdgesFirstOnly(st, currentId, edges, endId) ==
    IF edges = <<>> THEN st ELSE RelaxEdge(st, currentId, Head(edges), endId)

RECURSIVE RelaxEdges(_, _, _, _)
RelaxEdges(st, currentId, edges, endId) ==
    IF edges = <<>> THEN st
    ELSE RelaxEdges(RelaxEdge(st, currentId, Head(edges), endId), currentId, Tail(edges), endId)

\* GameState.reconstructPath
RECURSIVE ReconstructPath(_, _)
ReconstructPath(cameFrom, path) ==
    IF Head(path) \in DOMAIN cameFrom
    THEN ReconstructPath(cameFrom, <<cameFrom[Head(path)]>> \o path)
    ELSE path

\* path.slice(0, 5): a slice that keeps the start node
SliceFromStart(path) == SubSeq(path, 1, Min(Len(path), 5))

\* path.slice(1, 6)
SliceNext5(path) == SubSeq(path, 2, Min(Len(path), 6))

NoPath == [found |-> FALSE, path |-> <<>>, returned |-> <<>>, iterations |-> 0]

\* one iteration of the main loop of findPathAStar, or its exit when the open set is
\* empty; iterations counts the nodes taken from the open set so far
AStarStep(graph, endId, st, iterations) ==
    IF st.openSet = <<>>
    THEN [done |-> TRUE, st |-> st, result |-> [NoPath EXCEPT !.iterations = iterations]]
    ELSE LET at == LowestOpen(st.openSet)
             currentId == st.openSet[at].id
         IN  IF currentId = endId
             THEN LET path == ReconstructPath(st.cameFrom, <<currentId>>)
                  IN  [done |-> TRUE, st |-> st,
                       result |-> [found |-> TRUE, path |-> path,
                                   returned |-> SliceNext5(path),
                                   iterations |-> iterations + 1]]
             ELSE [done |-> FALSE,
                   st |-> RelaxEdges([st EXCEPT !.openSet = RemoveAt(@, at),
                                                !.closedSet = @ \cup {currentId}],
                                     currentId, graph.nodes[currentId], endId),
                   result |-> [NoPath EXCEPT !.iterations = iterations + 1]]

\* the main loop of findPathAStar
RECURSIVE AStarLoop(_, _, _, _)
AStarLoop(graph, endId, st, iterations) ==
    LET step == AStarStep(graph, endId, st, iterations)
    IN  IF step.done THEN step.result
        ELSE AStarLoop(graph, endId, step.st, iterations + 1)

\* the search state findPathAStar starts its loop with
AStarStart(startNode, endNode) ==
    [openSet |-> <<[id |-> startNode, fScore |-> ManhattanDistance(startNode, endNode)]>>,
     closedSet |-> {},
     gScore |-> MapSet(EmptyMap, startNode, 0),
     cameFrom |-> EmptyMap]

\* a search that returns its start node when it finds no path
FindPathAStarStartWhenNone(graph, startNode, endNode) ==
    IF graph.null \/ startNode = NoNode \/ endNode = NoNode THEN NoPath
    ELSE LET search == AStarLoop(graph, endNode, AStarStart(startNode, endNode), 0)
         IN  IF search.found THEN search ELSE [search EXCEPT !.returned = <<startNode>>]

\* GameState.findPathAStar: the search record; .returned is the value returned
FindPathAStar(graph, startNode, endNode) ==
    IF graph.null THEN NoPath
    ELSE IF startNode = NoNode \/ endNode = NoNode THEN NoPath
    ELSE AStarLoop(graph, endNode, AStarStart(startNode, endNode), 0)

\* GameState.findEnemyPathToPlayer
FindEnemyPathToPlayer(graph, en, pl) ==
    IF graph.null THEN <<>>
    ELSE LET startNode == GetNode(graph, en.row, en.col, en.orientation)
             endNode   == GetNode(graph, pl.row, pl.col, pl.orientation)
         IN  IF startNode = NoNode \/ endNode = NoNode THEN <<>>
             ELSE FindPathAStar(graph, startNode, endNode).returned

\* a pursuit step that turns the enemy on its triangle but never takes it across an edge
MoveEnemyTowardsPlayerOnTriangle(graph, en, pl) ==
    IF graph.null THEN en
    ELSE LET path == FindEnemyPathToPlayer(graph, en, pl)
         IN  IF Len(path) = 0 \/ <<path[1][1], path[1][2]>> # <<en.row, en.col>> THEN en
             ELSE SetPosition(en, path[1][1], path[1][2], path[1][3])

\* a pursuit step that leaves the enemy where it is
MoveEnemyTowardsPlayerNever(graph, en, pl) == en

\* a pursuit step that applies the last of the returned nodes
MoveEnemyTowardsPlayerLastNode(graph, en, pl) ==
    IF graph.null THEN en
    ELSE LET path == FindEnemyPathToPlayer(graph, en, pl)
         IN  IF Len(path) = 0 THEN en
             ELSE SetPosition(en, path[Len(path)][1], path[Len(path)][2], path[Len(path)][3])

\* GameState.moveEnemyTowardsPlayer: the enemy it leaves
MoveEnemyTowardsPlayer(graph, en, pl) ==
    IF graph.null THEN en
    ELSE LET path == FindEnemyPathToPlayer(graph, en, pl)
         IN  IF Len(path) = 0 THEN en
             ELSE SetPosition(en, path[1][1], path[1][2], path[1][3])

\* an incrementTurn that counts the turn and leaves the enemy where it is
IncrementTurnCounterOnly(graph, turns, en, pl) ==
    [turnCounter |-> turns + 1, enemy |-> en, pursuits |-> 0]

\* GameState.incrementTurn: the turn counter and enemy it leaves, and the number of
\* pursuit steps it started
IncrementTurn(graph, turns, en, pl) ==
    [turnCounter |-> turns + 1,
     enemy |-> MoveEnemyTowardsPlayer(graph, en, pl),
     pursuits |-> 1]

\* a setGrid that takes the row count for the index of the last row
SetGridLastRowOff(g, pl, en) ==
    LET maxRow == GetRowCount(g)
        maxCol == GetRowLength(g, maxRow) - 1
    IN  [gridGraph |-> BuildFromGrid(g),
         player |-> SetPosition(pl, 0, 0, "left"),
         enemy |-> SetPosition(en, maxRow, maxCol, "right")]

\* GameState.setGrid: graph, player and enemy after binding grid g
SetGrid(g, pl, en) ==
    LET maxRow == GetRowCount(g) - 1
        maxCol == GetRowLength(g, maxRow) - 1
    IN  [gridGraph |-> BuildFromGrid(g),
         player |-> SetPosition(pl, 0, 0, "left"),
         enemy |-> SetPosition(en, maxRow, maxCol, "right")]

(***************************************************************************)
(* Inputs of the grid operations                                           *)
(***************************************************************************)
\* (numRows, trianglesPerRow) pairs with at most n triangles, no empty grid
Dims(n) == {d \in (1..n) \X (1..n) : d[1] * d[2] <= n}

\* the same with the empty grids initialize(0, c) and initialize(r, 0)
DimsWithEmpty(n) == Dims(n) \cup {<<0, 1>>, <<1, 0>>}

\* the (row, col) keys of the grids with at most n triangles
KeyInputs(n) == (0..(n - 1)) \X (0..(n - 1))

DensityPercents == {-50, 0, 25, 50, 100}

DensityInputs ==
    {[finite |-> TRUE, pct |-> p] : p \in DensityPercents} \cup {[finite |-> FALSE, pct |-> 0]}

\* rngSeed: null, the numbers 42 and 70000, and the string "ab" as its char codes
SeedInputs ==
    {NoSeed, [kind |-> "number", value |-> 42], [kind |-> "number", value |-> 70000],
     [kind |-> "string", value |-> <<97, 98>>]}

\* side names passed to setSideState: the three sides and a name that is none of them
SideInputs == Sides \cup {"bottom"}

SideChars == {"e", "m"}

TokenSet == {<<a, "|", b, "|", c>> : a \in SideChars, b \in SideChars, c \in SideChars}

RECURSIVE SumSeq(_)
SumSeq(s) == IF s = <<>> THEN 0 ELSE Head(s) + SumSeq(Tail(s))

\* row lengths of the map texts: every row has a triangle, at most n triangles in all
MapShapes(n) == {sh \in UNION {[1..k -> 1..n] : k \in 1..n} : SumSeq(sh) <= n}

RECURSIVE RowTexts(_)
RowTexts(n) ==
    IF n = 1 THEN TokenSet
    ELSE {t \o <<" ">> \o r : t \in TokenSet, r \in RowTexts(n - 1)}

RECURSIVE ShapeTexts(_)
ShapeTexts(sh) ==
    IF Len(sh) = 1 THEN RowTexts(sh[1])
    ELSE {r \o <<"\n">> \o rest : r \in RowTexts(sh[1]), rest \in ShapeTexts(Tail(sh))}

\* map texts of 'e'/'m' tokens separated by single spaces and newlines
WellFormedTexts == UNION {ShapeTexts(sh) : sh \in MapShapes(MaxMapTriangles)}

\* texts with surrounding or repeated whitespace, or with a side character that is not e or m
LooseTexts ==
    {<<" ", "m", "|", "e", "|", "e", " ", " ", "e", "|", "e", "|", "m", "\n">>,
     <<"e", "|", "x", "|", "m", "\n", " ", "e", "|", "e", "|", "e", " ">>}

\* texts with a definition that does not have 3 fields
MalformedTexts ==
    {<<"e", "|", "e">>,
     <<"e", "|", "m", "|", "e", " ", "e", "|", "m">>,
     <<"m", "|", "e", "|", "e", "\n", "e", "|", "e", "|", "e", "|", "e">>,
     <<"e", "|", "m", "|", "e", " ", "m", " ", "e", "|", "e", "\n", "e">>,
     <<"e", "|", "e", "|", "e", "\n", "\n", "m", "|", "m", "|", "m">>,
     <<>>}

\* texts whose rows have different lengths
RaggedTexts == ShapeTexts(<<1, 2>>) \cup ShapeTexts(<<2, 1>>)

MapTexts == WellFormedTexts \cup RaggedTexts \cup LooseTexts \cup MalformedTexts

(***************************************************************************)
(* Actions on the grid                                                     *)
(***************************************************************************)
GameUnchanged ==
    UNCHANGED <<player, enemy, turnCounter, gameGrid, gridGraph, currentPhase, keysPressed>>

\* grid.initialize(numRows, trianglesPerRow) on the constructed grid
DoInitialize(numRowsArg, trianglesPerRow) ==
    /\ last.op = "constructor"
    /\ grid' = Initialize(numRowsArg, trianglesPerRow)
    /\ last' = [op |-> "initialize"]
    /\ UNCHANGED gen
    /\ GameUnchanged

\* grid.initializeFromMap(mapString) on the constructed grid
DoInitializeFromMap(mapString) ==
    /\ last.op = "constructor"
    /\ LET r == InitializeFromMap(mapString)
       IN  /\ grid' = r.grid
           /\ last' = [op |-> IF r.error THEN "initializeFromMap:throw" ELSE "initializeFromMap",
                        text |-> mapString, row |-> r.row, col |-> r.col]
    /\ UNCHANGED gen
    /\ GameUnchanged

\* generateRandomGrid up to the carve loop: topology, rng, all-mirror seed, edge lists,
\* density bounds, carve start
GenerateBegin(numRowsArg, trianglesPerRow, mirrorDensity, rngSeed) ==
    LET g0     == Initialize(numRowsArg, trianglesPerRow)
        seeded == SeedMirrors(g0.triangles, Flatten(g0.rows))
        edges  == CollectEdges(seeded, Flatten(g0.rows),
                               [internalEdges |-> <<>>, boundaryEdges |-> <<>>])
        totalEdges   == Len(edges.internalEdges) + Len(edges.boundaryEdges)
        minOpenEdges == numRowsArg * trianglesPerRow
        maxOpenEdges == Len(edges.internalEdges) + 1
        start == <<numRowsArg \div 2, trianglesPerRow \div 2>>
    IN  [grid |-> [g0 EXCEPT !.triangles = seeded],
         gen |-> [pc |-> "carve",
                  internalEdges |-> edges.internalEdges,
                  boundaryEdges |-> edges.boundaryEdges,
                  desiredDensity |-> DesiredDensity(mirrorDensity, totalEdges,
                                                    minOpenEdges, maxOpenEdges),
                  visited |-> {start}, stack |-> <<start>>,
                  rng |-> MakeRng(rngSeed)]]

GenerateArgs(numRowsArg, trianglesPerRow, mirrorDensity, rngSeed) ==
    [numRows |-> numRowsArg, trianglesPerRow |-> trianglesPerRow,
     mirrorDensity |-> mirrorDensity, rngSeed |-> rngSeed]

\* the start of grid.generateRandomGrid(numRows, trianglesPerRow, mirrorDensity, rngSeed)
\* on the constructed grid
GenerateStart(numRowsArg, trianglesPerRow, mirrorDensity, rngSeed) ==
    /\ last.op = "constructor"
    /\ LET begun == GenerateBegin(numRowsArg, trianglesPerRow, mirrorDensity, rngSeed)
       IN  /\ grid' = begun.grid
           /\ gen' = begun.gen
    /\ last' = [op |-> "generating",
                args |-> GenerateArgs(numRowsArg, trianglesPerRow, mirrorDensity, rngSeed)]
    /\ GameUnchanged

\* the start of a second call with the arguments of the first, on the grid the first
\* call has generated
GenerateAgain ==
    /\ last.op = "generateRandomGrid"
    /\ "first" \notin DOMAIN last
    /\ LET begun == GenerateBegin(last.args.numRows, last.args.trianglesPerRow,
                                  last.args.mirrorDensity, last.args.rngSeed)
       IN  /\ grid' = begun.grid
           /\ gen' = begun.gen
    /\ last' = [op |-> "generating", args |-> last.args, first |-> grid]
    /\ GameUnchanged

\* one iteration of the carve loop: backtrack, or open the edge to a picked candidate
CarveStep ==
    /\ gen.pc = "carve"
    /\ gen.stack # <<>>
    /\ LET current    == gen.stack[Len(gen.stack)]
           candidates == Candidates(grid.triangles, gen.internalEdges, gen.visited, current)
       IN  IF candidates = <<>>
           THEN /\ gen' = [gen EXCEPT !.stack = SubSeq(@, 1, Len(@) - 1)]
                /\ UNCHANGED grid
           ELSE \E pick \in PickRandom(gen.rng, Len(candidates)) :
                  LET choice == candidates[pick + 1]
                  IN  /\ grid' = [grid EXCEPT !.triangles =
                                     OpenEdge(@, gen.internalEdges[choice.edge])]
                      /\ gen' = [gen EXCEPT !.visited = @ \cup {choice.nb},
                                            !.stack = Append(@, choice.nb),
                                            !.rng = NextRng(@)]
    /\ UNCHANGED last
    /\ GameUnchanged

\* the rest of generateRandomGrid: the boundary exit and the density adjustment
FinishGenerate ==
    /\ gen.pc = "carve"
    /\ gen.stack = <<>>
    /\ gen.boundaryEdges # <<>>
    /\ \E exit \in PickRandom(gen.rng, Len(gen.boundaryEdges)) :
         LET exitEdge == gen.boundaryEdges[exit + 1]
             withExit == SetSideState(grid.triangles, exitEdge.a, exitEdge.aSide, EMPTY, FALSE)
             totalEdges == Len(gen.internalEdges) + Len(gen.boundaryEdges)
             targetOpenEdges  == TargetOpenEdges(totalEdges, gen.desiredDensity)
             currentOpenEdges == Cardinality(DOMAIN grid.triangles)
             closedInternal ==
                 SelectSeq(gen.internalEdges,
                           LAMBDA e : GetSideState(withExit, e.a, e.aSide) = MIRROR)
             toOpen == Min(targetOpenEdges - currentOpenEdges, Len(closedInternal))
         IN  IF targetOpenEdges > currentOpenEdges
             THEN \E draws \in ShuffleDraws(NextRng(gen.rng), Len(closedInternal)) :
                    /\ grid' = [grid EXCEPT !.triangles =
                                   OpenFirst(withExit,
                                             Shuffle(closedInternal, draws,
                                                     Len(closedInternal) - 1),
                                             toOpen)]
                    /\ gen' = [gen EXCEPT !.pc = "done",
                                          !.rng = RngAfter(@, Max(Len(closedInternal), 1))]
             ELSE /\ grid' = [grid EXCEPT !.triangles = withExit]
                  /\ gen' = [gen EXCEPT !.pc = "done", !.rng = NextRng(@)]
    /\ last' = [last EXCEPT !.op = "generateRandomGrid"]
    /\ GameUnchanged

\* triangle.setSideState(side, state) on a triangle of a built grid
DoSetSideState(k, side, state) ==
    /\ last.op \in {"initialize", "initializeFromMap", "generateRandomGrid", "setSideState"}
    /\ k \in DOMAIN grid.triangles
    /\ grid' = [grid EXCEPT !.triangles = SetSideState(@, k, side, state, TRUE)]
    /\ last' = [op |-> "setSideState", sideNamed |-> side \in Sides]
    /\ UNCHANGED gen
    /\ GameUnchanged

(***************************************************************************)
(* Specification of the grid: one grid object, built once by any of its    *)
(* three constructors and then edited through setSideState.                *)
(***************************************************************************)
InitGrid ==
    /\ grid = NewGrid
    /\ gen = GenIdle
    /\ player = NewCharacter
    /\ enemy = NewCharacter
    /\ turnCounter = 0
    /\ gameGrid = FALSE
    /\ gridGraph = NullGraph
    /\ currentPhase = "rotation"
    /\ keysPressed = {}
    /\ last = [op |-> "constructor"]

NextGrid ==
    \/ \E d \in DimsWithEmpty(MaxTriangles) : DoInitialize(d[1], d[2])
    \/ \E t \in MapTexts : DoInitializeFromMap(t)
    \/ \E d \in Dims(MaxTriangles), m \in DensityInputs, seed \in SeedInputs :
          GenerateStart(d[1], d[2], m, seed)
    \/ CarveStep
    \/ FinishGenerate
    \/ \E k \in KeyInputs(MaxTriangles), side \in SideInputs, state \in SideType :
          DoSetSideState(k, side, state)

SpecGrid == InitGrid /\ [][NextGrid]_vars

(***************************************************************************)
(* Specification of the generator alone, on larger grids.                  *)
(***************************************************************************)
NextGen ==
    \/ \E d \in Dims(MaxGenTriangles), m \in DensityInputs, seed \in SeedInputs :
          GenerateStart(d[1], d[2], m, seed)
    \/ CarveStep
    \/ FinishGenerate

SpecGen == InitGrid /\ [][NextGen]_vars

(***************************************************************************)
(* Properties of the grid                                                  *)
(***************************************************************************)
BuiltOps == {"initialize", "initializeFromMap", "generateRandomGrid", "setSideState"}

\* the side of the neighbor that lies on the same edge
OppositeSide == [left |-> "right", right |-> "left", third |-> "third"]

SharedSides(tris) ==
    {ks \in (DOMAIN tris) \X Sides : tris[ks[1]].neighbors[ks[2]] # NoTriangle}

BoundarySides(tris) ==
    {ks \in (DOMAIN tris) \X Sides : tris[ks[1]].neighbors[ks[2]] = NoTriangle}

RECURSIVE ReachableThroughEmpty(_, _)
ReachableThroughEmpty(tris, set) ==
    LET step == set \cup UNION {{tris[k].neighbors[s] :
                                    s \in {x \in Sides : /\ tris[k].sides[x] = EMPTY
                                                         /\ tris[k].neighbors[x] # NoTriangle}} :
                                  k \in set}
    IN  IF step = set THEN set ELSE ReachableThroughEmpty(tris, step)

\* C2: the grid left by generateRandomGrid is fully connected: from any triangle, crossing
\* only sides that are empty and have a neighbor, every other triangle is reachable
C2_FullyConnected ==
    last.op = "generateRandomGrid" =>
        \A k \in DOMAIN grid.triangles :
            ReachableThroughEmpty(grid.triangles, {k}) = DOMAIN grid.triangles

EmptyBoundarySides(tris) == {ks \in BoundarySides(tris) : tris[ks[1]].sides[ks[2]] = EMPTY}

\* C3: in a grid left by generateRandomGrid exactly one side without a neighbor is empty
\* and every other side without a neighbor is mirror
C3_SingleExit ==
    last.op = "generateRandomGrid" =>
        /\ Cardinality(EmptyBoundarySides(grid.triangles)) = 1
        /\ \A ks \in BoundarySides(grid.triangles) \ EmptyBoundarySides(grid.triangles) :
              grid.triangles[ks[1]].sides[ks[2]] = MIRROR

\* a generated grid in which the density adjustment opened an edge beyond the carved tree
C3_Witness ==
    /\ last.op = "generateRandomGrid"
    /\ Cardinality({ks \in SharedSides(grid.triangles) :
                      grid.triangles[ks[1]].sides[ks[2]] = EMPTY})
          > 2 * (Cardinality(DOMAIN grid.triangles) - 1)
    /\ Cardinality(EmptyBoundarySides(grid.triangles)) = 1

(***************************************************************************)
(* Grids for the character, the graph and the game: a grid built by        *)
(* initialize in which setSideState has then made some shared edges        *)
(* mirror, and either none or all of the sides without a neighbor.         *)
(***************************************************************************)
RECURSIVE CloseEdges(_, _, _)
CloseEdges(tris, edges, chosen) ==
    IF edges = <<>> THEN tris
    ELSE CloseEdges(IF Len(edges) \in chosen
                    THEN SetSideState(tris, edges[Len(edges)].a, edges[Len(edges)].aSide,
                                      MIRROR, TRUE)
                    ELSE tris,
                    SubSeq(edges, 1, Len(edges) - 1), chosen)

EdgesOf(g) ==
    CollectEdges(g.triangles, Flatten(g.rows), [internalEdges |-> <<>>, boundaryEdges |-> <<>>])

WalledGrid(g, walls, closeBoundary) ==
    LET inner == CloseEdges(g.triangles, EdgesOf(g).internalEdges, walls)
    IN  [g EXCEPT !.triangles =
            IF closeBoundary
            THEN CloseEdges(inner, EdgesOf(g).boundaryEdges,
                            1..Len(EdgesOf(g).boundaryEdges))
            ELSE inner]

WalledGridsOf(dims, boundaryChoices) ==
    UNION {{WalledGrid(Initialize(d[1], d[2]), walls, closeBoundary) :
               walls \in SUBSET (1..Len(EdgesOf(Initialize(d[1], d[2])).internalEdges)),
               closeBoundary \in boundaryChoices} :
           d \in dims}

WalledGrids(n) == WalledGridsOf(DimsWithEmpty(n), BOOLEAN)

(***************************************************************************)
(* Specification of one Character on a grid                                *)
(***************************************************************************)
Directions == {FORWARD_LEFT, FORWARD_RIGHT, "backward"}

\* orientation arguments: the three sides, none (null) and a name that is no side
OrientationInputs == OrientationSet \cup {NoSide, "up"}

\* positions a character is put on: the keys of the grids and one off every grid
PositionInputs(n) == KeyInputs(n) \cup {<<-1, -1>>}

NoReturn == [success |-> FALSE, row |-> 0, col |-> 0, orientation |-> "left"]

InitChar ==
    /\ grid \in WalledGrids(MaxTriangles)
    /\ gen = GenIdle
    /\ player = NewCharacter
    /\ enemy = NewCharacter
    /\ turnCounter = 0
    /\ gameGrid = FALSE
    /\ gridGraph = NullGraph
    /\ currentPhase = "rotation"
    /\ keysPressed = {}
    /\ last = [op |-> "constructor", direction |-> "", ret |-> NoReturn]

CharFrame ==
    UNCHANGED <<gen, enemy, turnCounter, gameGrid, gridGraph, currentPhase, keysPressed>>

\* player.setPosition(row, col, orientation)
DoSetPosition(row, col, orientation) ==
    /\ player' = SetPosition(player, row, col, orientation)
    /\ last' = [op |-> "setPosition", direction |-> "", ret |-> NoReturn]
    /\ UNCHANGED grid
    /\ CharFrame

\* player.rotateClockwise(pointsUp)
DoRotateClockwise(pointsUp) ==
    /\ player' = [player EXCEPT !.orientation = RotateClockwise(@, pointsUp)]
    /\ last' = [op |-> "rotateClockwise", direction |-> "", ret |-> NoReturn]
    /\ UNCHANGED grid
    /\ CharFrame

\* player.rotateCounterClockwise(pointsUp)
DoRotateCounterClockwise(pointsUp) ==
    /\ player' = [player EXCEPT !.orientation = RotateCounterClockwise(@, pointsUp)]
    /\ last' = [op |-> "rotateCounterClockwise", direction |-> "", ret |-> NoReturn]
    /\ UNCHANGED grid
    /\ CharFrame

\* player.move(grid, direction); move only reads the grid
DoMove(direction) ==
    /\ player' = Move(grid, player, direction).character
    /\ last' = [op |-> "move", direction |-> direction, ret |-> Move(grid, player, direction).ret]
    /\ UNCHANGED grid
    /\ CharFrame

\* player.canMove(grid); last.ret.success keeps the value returned
DoCanMove ==
    /\ last' = [op |-> "canMove", direction |-> "",
                ret |-> [NoReturn EXCEPT !.success = CanMove(grid, player)]]
    /\ UNCHANGED <<grid, player>>
    /\ CharFrame

NextChar ==
    \/ \E p \in PositionInputs(MaxTriangles), o \in OrientationInputs :
          DoSetPosition(p[1], p[2], o)
    \/ \E pointsUp \in BOOLEAN : DoRotateClockwise(pointsUp)
    \/ \E pointsUp \in BOOLEAN : DoRotateCounterClockwise(pointsUp)
    \/ \E direction \in Directions : DoMove(direction)
    \/ DoCanMove

SpecChar == InitChar /\ [][NextChar]_vars

(***************************************************************************)
(* Properties of Character.move                                            *)
(***************************************************************************)
\* the character stands on a triangle and faces an empty side that has a neighbor
FacesOpenSide(g, ch) ==
    /\ HasTriangle(g, ch.row, ch.col)
    /\ g.triangles[<<ch.row, ch.col>>].sides[ch.orientation] = EMPTY
    /\ g.triangles[<<ch.row, ch.col>>].neighbors[ch.orientation] # NoTriangle

\* the triangle across the side the character faces
FacedNeighbor(g, ch) == g.triangles[g.triangles[<<ch.row, ch.col>>].neighbors[ch.orientation]]

\* C4: move(grid, d) with d forward_left or forward_right succeeds exactly when the
\* character's triangle exists and the faced side is empty and has a neighbor; then the
\* character is on the neighbor, facing the side opposite the crossed one rotated clockwise
\* (forward_left) or counter-clockwise (forward_right) in the neighbor's rotation table,
\* and the returned record is that state with success true
C4_MoveCrossesFacedSide ==
    [][\A d \in {FORWARD_LEFT, FORWARD_RIGHT} :
          (last'.op = "move" /\ last'.direction = d) =>
              /\ last'.ret.success <=> FacesOpenSide(grid, player)
              /\ FacesOpenSide(grid, player) =>
                    LET nb == FacedNeighbor(grid, player)
                        entered == OppositeSide[player.orientation]
                        turned == IF d = FORWARD_LEFT
                                  THEN RotateClockwise(entered, nb.pointsUp)
                                  ELSE RotateCounterClockwise(entered, nb.pointsUp)
                    IN  /\ player' = [row |-> nb.row, col |-> nb.col, orientation |-> turned]
                        /\ last'.ret = [success |-> TRUE, row |-> nb.row, col |-> nb.col,
                                        orientation |-> turned]]_vars

\* a forward_left move has succeeded into a down-pointing triangle of another row
C4_Witness ==
    /\ last.op = "move"
    /\ last.direction = FORWARD_LEFT
    /\ last.ret.success
    /\ player.row = 1
    /\ ~grid.triangles[<<player.row, player.col>>].pointsUp
    /\ player = [row |-> last.ret.row, col |-> last.ret.col, orientation |-> last.ret.orientation]

\* C5: move fails with success false and leaves row, col and orientation unchanged when
\* the character is off the grid, the faced side is not empty or has no neighbor, or the
\* direction is neither forward_left nor forward_right; move never modifies the grid
C5_FailedMoveChangesNothing ==
    [][last'.op = "move" =>
          /\ grid' = grid
          /\ (~FacesOpenSide(grid, player) \/ last'.direction \notin {FORWARD_LEFT, FORWARD_RIGHT})
                => /\ ~last'.ret.success
                   /\ player' = player
                   /\ last'.ret = [success |-> FALSE, row |-> player.row, col |-> player.col,
                                   orientation |-> player.orientation]]_vars

\* a move with an invalid direction has failed although the faced side was open
C5_Witness ==
    /\ last.op = "move"
    /\ last.direction = "backward"
    /\ ~last.ret.success
    /\ FacesOpenSide(grid, player)

(***************************************************************************)
(* Specification of the path search: a GameState is bound to a grid by     *)
(* setGrid and findPathAStar is called on two nodes of its graph.  The     *)
(* search changes no state, so one call per run shows every result.        *)
(***************************************************************************)
NodeInputs(n) == {<<k[1], k[2], o>> : k \in KeyInputs(n), o \in OrientationSet} \cup {NoNode}

NoSearch ==
    [op |-> "constructor", start |-> NoNode, goal |-> NoNode, search |-> NoPath]

InitGame ==
    /\ grid = NewGrid
    /\ gen = GenIdle
    /\ player = NewCharacter
    /\ enemy = NewCharacter
    /\ turnCounter = 0
    /\ gameGrid = FALSE
    /\ gridGraph = NullGraph
    /\ currentPhase = "rotation"
    /\ keysPressed = {}
    /\ last = NoSearch

\* gameState.setGrid(g) for a grid g built beforehand
DoSetGrid(g) ==
    /\ ~gameGrid
    /\ grid' = g
    /\ gameGrid' = TRUE
    /\ gridGraph' = SetGrid(g, player, enemy).gridGraph
    /\ player' = SetGrid(g, player, enemy).player
    /\ enemy' = SetGrid(g, player, enemy).enemy
    /\ last' = [NoSearch EXCEPT !.op = "setGrid"]
    /\ UNCHANGED <<gen, turnCounter, currentPhase, keysPressed>>

\* gameState.initializeGrid(numRows, trianglesPerRow): a new grid built by initialize,
\* its graph, and the same start positions as setGrid
DoInitializeGrid(numRowsArg, trianglesPerRow) ==
    /\ ~gameGrid
    /\ LET g == Initialize(numRowsArg, trianglesPerRow)
           maxRow == GetRowCount(g) - 1
           maxCol == GetRowLength(g, maxRow) - 1
       IN  /\ grid' = g
           /\ gridGraph' = BuildFromGrid(g)
           /\ player' = SetPosition(player, 0, 0, "left")
           /\ enemy' = SetPosition(enemy, maxRow, maxCol, "right")
    /\ gameGrid' = TRUE
    /\ last' = [NoSearch EXCEPT !.op = "setGrid"]
    /\ UNCHANGED <<gen, turnCounter, currentPhase, keysPressed>>

\* gameState.findPathAStar(startNode, endNode) on nodes of the graph, or null
DoFindPathAStar(startNode) ==
    /\ last.op = "setGrid"
    /\ startNode \in (DOMAIN gridGraph.nodes) \cup {NoNode}
    /\ \E endNode \in (DOMAIN gridGraph.nodes) \cup {NoNode} :
           last' = [op |-> "findPathAStar", start |-> startNode, goal |-> endNode,
                    search |-> FindPathAStar(gridGraph, startNode, endNode)]
    /\ UNCHANGED <<grid, gen, player, enemy, turnCounter, gameGrid, gridGraph,
                   currentPhase, keysPressed>>

\* the boundary sides never enter the graph, so they stay mirrors here
PathGrids == WalledGridsOf(DimsWithEmpty(MaxPathTriangles), {TRUE})

PathNodes == NodeInputs(MaxPathTriangles)

PathDims == DimsWithEmpty(MaxPathTriangles)

NextPath ==
    \/ \E g \in PathGrids : DoSetGrid(g)
    \/ \E d \in PathDims : DoInitializeGrid(d[1], d[2])
    \/ \E startNode \in PathNodes : DoFindPathAStar(startNode)

SpecPath == InitGame /\ [][NextPath]_vars

(***************************************************************************)
(* Properties of the graph and of the path search                          *)
(***************************************************************************)
NodeCharacter(n) == [row |-> n[1], col |-> n[2], orientation |-> n[3]]

MovementEdges(graph, n, d) ==
    {i \in 1..Len(graph.nodes[n]) :
        graph.nodes[n][i].edgeType = "movement" /\ graph.nodes[n][i].action = d}

\* C6: while the grid is the one the graph was built from, a node has a movement edge
\* of a direction exactly when Character.move in that direction succeeds from the
\* node's position and orientation, and the edge leads to the state move produces.
C6_MovementEdgesAgreeWithMove ==
    ~gridGraph.null =>
        \A n \in DOMAIN gridGraph.nodes : \A d \in {FORWARD_LEFT, FORWARD_RIGHT} :
            LET moved == Move(grid, NodeCharacter(n), d)
                es == MovementEdges(gridGraph, n, d)
            IN  /\ (es # {}) <=> moved.ret.success
                /\ Cardinality(es) <= 1
                /\ \A i \in es :
                       gridGraph.nodes[n][i].targetNode =
                           <<moved.character.row, moved.character.col,
                             moved.character.orientation>>

C6_Witness ==
    /\ ~gridGraph.null
    /\ \E n \in DOMAIN gridGraph.nodes :
           /\ MovementEdges(gridGraph, n, FORWARD_LEFT) # {}
           /\ ~grid.triangles[<<n[1], n[2]>>].pointsUp
    /\ \E n \in DOMAIN gridGraph.nodes :
           /\ grid.triangles[<<n[1], n[2]>>].neighbors[n[3]] # NoTriangle
           /\ grid.triangles[<<n[1], n[2]>>].sides[n[3]] = MIRROR
           /\ MovementEdges(gridGraph, n, FORWARD_LEFT) = {}

\* the nodes one edge away from a set of nodes
Successors(graph, nodes) ==
    UNION {{graph.nodes[n][i].targetNode : i \in 1..Len(graph.nodes[n])} : n \in nodes}

\* the number of edges of a shortest path, by breadth-first layers; -1 when there is none
RECURSIVE LayerDistance(_, _, _, _, _)
LayerDistance(graph, frontier, visited, goal, d) ==
    IF goal \in frontier THEN d
    ELSE IF frontier = {} THEN -1
    ELSE LayerDistance(graph, Successors(graph, frontier) \ (visited \cup frontier),
                       visited \cup frontier, goal, d + 1)

Distance(graph, from, to) == LayerDistance(graph, {from}, {}, to, 0)

\* C7: when a path from the start node to the goal exists, the search finds one with
\* the fewest edges, so the first node it returns is one edge nearer to the goal.
C7_PathIsShortest ==
    (last.op = "findPathAStar" /\ last.start # NoNode /\ last.goal # NoNode
        /\ Distance(gridGraph, last.start, last.goal) >= 0) =>
        /\ last.search.found
        /\ Len(last.search.path) - 1 = Distance(gridGraph, last.start, last.goal)
        /\ last.search.returned # <<>> =>
               Distance(gridGraph, last.search.returned[1], last.goal)
                   = Distance(gridGraph, last.start, last.goal) - 1

C7_Witness ==
    /\ last.op = "findPathAStar"
    /\ last.search.found
    /\ Len(last.search.path) >= 7
    /\ \E i \in 1..(Len(last.search.path) - 1) :
           last.search.path[i][3] # last.search.path[i + 1][3]
               /\ last.search.path[i][1] = last.search.path[i + 1][1]
               /\ last.search.path[i][2] = last.search.path[i + 1][2]

\* C8: the returned nodes continue the start node along edges of the graph, one edge
\* per returned node: at most five, and all of the path after the start when shorter.
C8_ReturnedPathFollowsEdges ==
    last.op = "findPathAStar" =>
        LET chain == <<last.start>> \o last.search.returned
        IN  /\ \A i \in 1..Len(last.search.returned) :
                   /\ chain[i] \in DOMAIN gridGraph.nodes
                   /\ chain[i + 1] \in Successors(gridGraph, {chain[i]})
            /\ Len(last.search.returned) <= 5
            /\ last.search.found =>
                   Len(last.search.returned) = Min(5, Len(last.search.path) - 1)
            /\ ~last.search.found => last.search.returned = <<>>

C8_Witness ==
    /\ last.op = "findPathAStar"
    /\ Len(last.search.returned) = 5
    /\ Len(last.search.path) > 6
    /\ last.search.returned[5] # last.goal

(***************************************************************************)
(* MovementSystem (movement_system.js).  A key is the sequence of its      *)
(* characters; the handlers are functions of the game state they read and  *)
(* return the parts of it they leave.                                      *)
(***************************************************************************)
MOVEMENT == "movement"

ROTATION == "rotation"

UpperToLower ==
    [A |-> "a", B |-> "b", C |-> "c", D |-> "d", E |-> "e", F |-> "f", G |-> "g",
     H |-> "h", I |-> "i", J |-> "j", K |-> "k", L |-> "l", M |-> "m", N |-> "n",
     O |-> "o", P |-> "p", Q |-> "q", R |-> "r", S |-> "s", T |-> "t", U |-> "u",
     V |-> "v", W |-> "w", X |-> "x", Y |-> "y", Z |-> "z"]

\* String.prototype.toLowerCase on a key
ToLowerCase(key) ==
    [i \in 1..Len(key) |-> IF key[i] \in DOMAIN UpperToLower THEN UpperToLower[key[i]] ELSE key[i]]

KeyLeft == <<"a", "r", "r", "o", "w", "l", "e", "f", "t">>

KeyRight == <<"a", "r", "r", "o", "w", "r", "i", "g", "h", "t">>

KeyUp == <<"a", "r", "r", "o", "w", "u", "p">>

KeyDown == <<"a", "r", "r", "o", "w", "d", "o", "w", "n">>

\* what a handler leaves when it returns without acting
Unhandled(pl, en, turns, handler) ==
    [player |-> pl, enemy |-> en, turnCounter |-> turns, handler |-> handler,
     direction |-> "null", result |-> NoReturn, pursuits |-> 0]

\* a handleMovementInput that counts a turn whatever move returned
HandleMovementInputAnyResult(hasGrid, g, graph, pl, en, turns, key) ==
    IF ~hasGrid THEN Unhandled(pl, en, turns, "uninitialized")
    ELSE LET direction == IF key = <<"a">> \/ key = KeyLeft THEN FORWARD_LEFT
                          ELSE IF key = <<"d">> \/ key = KeyRight THEN FORWARD_RIGHT
                          ELSE "null"
         IN  IF direction = "null" THEN Unhandled(pl, en, turns, MOVEMENT)
             ELSE LET moved == Move(g, pl, direction)
                      turn == IncrementTurn(graph, turns, en, moved.character)
                  IN  [player |-> moved.character, enemy |-> turn.enemy,
                       turnCounter |-> turn.turnCounter, handler |-> MOVEMENT,
                       direction |-> direction, result |-> moved.ret,
                       pursuits |-> turn.pursuits]

\* MovementSystem.handleMovementInput
HandleMovementInput(hasGrid, g, graph, pl, en, turns, key) ==
    IF ~hasGrid THEN Unhandled(pl, en, turns, "uninitialized")
    ELSE LET direction == IF key = <<"a">> \/ key = KeyLeft THEN FORWARD_LEFT
                          ELSE IF key = <<"d">> \/ key = KeyRight THEN FORWARD_RIGHT
                          ELSE "null"
         IN  IF direction = "null" THEN Unhandled(pl, en, turns, MOVEMENT)
             ELSE LET moved == Move(g, pl, direction)
                  IN  IF moved.ret.success
                      THEN LET turn == IncrementTurn(graph, turns, en, moved.character)
                           IN  [player |-> moved.character, enemy |-> turn.enemy,
                                turnCounter |-> turn.turnCounter, handler |-> MOVEMENT,
                                direction |-> direction, result |-> moved.ret,
                                pursuits |-> turn.pursuits]
                      ELSE [Unhandled(moved.character, en, turns, MOVEMENT)
                               EXCEPT !.direction = direction, !.result = moved.ret]

\* a handleRotationInput with the two rotations exchanged
HandleRotationInputExchanged(hasGrid, g, graph, pl, en, turns, key) ==
    IF ~hasGrid THEN Unhandled(pl, en, turns, "uninitialized")
    ELSE IF ~HasTriangle(g, pl.row, pl.col) THEN Unhandled(pl, en, turns, "offgrid")
    ELSE LET currentTriangle == g.triangles[<<pl.row, pl.col>>]
             rotated ==
                 IF key = <<"a">> \/ key = KeyLeft
                 THEN [pl EXCEPT !.orientation = RotateClockwise(@, currentTriangle.pointsUp)]
                 ELSE [pl EXCEPT !.orientation =
                                     RotateCounterClockwise(@, currentTriangle.pointsUp)]
         IN  IF key = <<"a">> \/ key = KeyLeft \/ key = <<"d">> \/ key = KeyRight
             THEN LET turn == IncrementTurn(graph, turns, en, rotated)
                  IN  [player |-> rotated, enemy |-> turn.enemy,
                       turnCounter |-> turn.turnCounter, handler |-> ROTATION,
                       direction |-> "null", result |-> NoReturn,
                       pursuits |-> turn.pursuits]
             ELSE Unhandled(pl, en, turns, ROTATION)

\* MovementSystem.handleRotationInput
HandleRotationInput(hasGrid, g, graph, pl, en, turns, key) ==
    IF ~hasGrid THEN Unhandled(pl, en, turns, "uninitialized")
    ELSE IF ~HasTriangle(g, pl.row, pl.col) THEN Unhandled(pl, en, turns, "offgrid")
    ELSE LET currentTriangle == g.triangles[<<pl.row, pl.col>>]
             rotated ==
                 IF key = <<"a">> \/ key = KeyLeft
                 THEN [pl EXCEPT !.orientation =
                                     RotateCounterClockwise(@, currentTriangle.pointsUp)]
                 ELSE [pl EXCEPT !.orientation = RotateClockwise(@, currentTriangle.pointsUp)]
         IN  IF key = <<"a">> \/ key = KeyLeft \/ key = <<"d">> \/ key = KeyRight
             THEN LET turn == IncrementTurn(graph, turns, en, rotated)
                  IN  [player |-> rotated, enemy |-> turn.enemy,
                       turnCounter |-> turn.turnCounter, handler |-> ROTATION,
                       direction |-> "null", result |-> NoReturn,
                       pursuits |-> turn.pursuits]
             ELSE Unhandled(pl, en, turns, ROTATION)

(***************************************************************************)
(* Specification of the game: the GameState singleton, bound to a grid by  *)
(* setGrid, driven by the key events of the MovementSystem.                *)
(***************************************************************************)
EventKeys ==
    {<<"a">>, <<"A">>, <<"d">>, <<"w">>, <<"s">>, <<"x">>,
     <<"A", "r", "r", "o", "w", "L", "e", "f", "t">>,
     <<"A", "r", "r", "o", "w", "R", "i", "g", "h", "t">>,
     <<"A", "r", "r", "o", "w", "U", "p">>,
     <<"A", "r", "r", "o", "w", "D", "o", "w", "n">>}

\* the record of a key event: the handler that took it and what the handler did
KeyEvent(op, handled) ==
    [op |-> op, handler |-> handled.handler, direction |-> handled.direction,
     result |-> handled.result, pursuits |-> handled.pursuits]

\* an onKeyDown without the keysPressed test: a key that is held acts again
OnKeyDownHeldKeyActs(eventKey) ==
    LET key == ToLowerCase(eventKey)
        handled ==
            IF currentPhase = MOVEMENT
            THEN HandleMovementInput(gameGrid, grid, gridGraph, player, enemy, turnCounter, key)
            ELSE HandleRotationInput(gameGrid, grid, gridGraph, player, enemy, turnCounter, key)
    IN  /\ turnCounter < MaxTurns
        /\ key \in keysPressed \/ Cardinality(keysPressed) < MaxKeysDown
        /\ keysPressed' = keysPressed \cup {key}
        /\ IF key = <<"w">> \/ key = KeyUp
           THEN /\ currentPhase' = MOVEMENT
                /\ last' = KeyEvent("keydown", Unhandled(player, enemy, turnCounter, "phase"))
                /\ UNCHANGED <<player, enemy, turnCounter>>
           ELSE IF key = <<"s">> \/ key = KeyDown
           THEN /\ currentPhase' = ROTATION
                /\ last' = KeyEvent("keydown", Unhandled(player, enemy, turnCounter, "phase"))
                /\ UNCHANGED <<player, enemy, turnCounter>>
           ELSE /\ \E h \in {handled} :
                       /\ player' = h.player
                       /\ enemy' = h.enemy
                       /\ turnCounter' = h.turnCounter
                       /\ last' = KeyEvent("keydown", h)
                /\ UNCHANGED currentPhase
        /\ UNCHANGED <<grid, gen, gameGrid, gridGraph>>

\* an onKeyDown that enters the movement phase only once a grid is bound
OnKeyDownNeedsGrid(eventKey) ==
    LET key == ToLowerCase(eventKey)
        handled ==
            IF currentPhase = MOVEMENT
            THEN HandleMovementInput(gameGrid, grid, gridGraph, player, enemy, turnCounter, key)
            ELSE HandleRotationInput(gameGrid, grid, gridGraph, player, enemy, turnCounter, key)
    IN  /\ turnCounter < MaxTurns
        /\ key \in keysPressed \/ Cardinality(keysPressed) < MaxKeysDown
        /\ IF key \in keysPressed
           THEN /\ last' = KeyEvent("keydown", Unhandled(player, enemy, turnCounter, "repeat"))
                /\ UNCHANGED <<keysPressed, currentPhase, player, enemy, turnCounter>>
           ELSE /\ keysPressed' = keysPressed \cup {key}
                /\ IF key = <<"w">> \/ key = KeyUp
                   THEN /\ currentPhase' = IF gameGrid THEN MOVEMENT ELSE currentPhase
                        /\ last' = KeyEvent("keydown",
                                            Unhandled(player, enemy, turnCounter, "phase"))
                        /\ UNCHANGED <<player, enemy, turnCounter>>
                   ELSE IF key = <<"s">> \/ key = KeyDown
                   THEN /\ currentPhase' = ROTATION
                        /\ last' = KeyEvent("keydown",
                                            Unhandled(player, enemy, turnCounter, "phase"))
                        /\ UNCHANGED <<player, enemy, turnCounter>>
                   ELSE /\ \E h \in {handled} :  \* the handler runs once
                               /\ player' = h.player
                               /\ enemy' = h.enemy
                               /\ turnCounter' = h.turnCounter
                               /\ last' = KeyEvent("keydown", h)
                        /\ UNCHANGED currentPhase
        /\ UNCHANGED <<grid, gen, gameGrid, gridGraph>>

\* MovementSystem.onKeyDown for a key event; a repeated key is ignored
OnKeyDown(eventKey) ==
    LET key == ToLowerCase(eventKey)
        handled ==
            IF currentPhase = MOVEMENT
            THEN HandleMovementInput(gameGrid, grid, gridGraph, player, enemy, turnCounter, key)
            ELSE HandleRotationInput(gameGrid, grid, gridGraph, player, enemy, turnCounter, key)
    IN  /\ turnCounter < MaxTurns
        /\ key \in keysPressed \/ Cardinality(keysPressed) < MaxKeysDown
        /\ IF key \in keysPressed
           THEN /\ last' = KeyEvent("keydown", Unhandled(player, enemy, turnCounter, "repeat"))
                /\ UNCHANGED <<keysPressed, currentPhase, player, enemy, turnCounter>>
           ELSE /\ keysPressed' = keysPressed \cup {key}
                /\ IF key = <<"w">> \/ key = KeyUp
                   THEN /\ currentPhase' = MOVEMENT
                        /\ last' = KeyEvent("keydown",
                                            Unhandled(player, enemy, turnCounter, "phase"))
                        /\ UNCHANGED <<player, enemy, turnCounter>>
                   ELSE IF key = <<"s">> \/ key = KeyDown
                   THEN /\ currentPhase' = ROTATION
                        /\ last' = KeyEvent("keydown",
                                            Unhandled(player, enemy, turnCounter, "phase"))
                        /\ UNCHANGED <<player, enemy, turnCounter>>
                   ELSE /\ \E h \in {handled} :  \* the handler runs once
                               /\ player' = h.player
                               /\ enemy' = h.enemy
                               /\ turnCounter' = h.turnCounter
                               /\ last' = KeyEvent("keydown", h)
                        /\ UNCHANGED currentPhase
        /\ UNCHANGED <<grid, gen, gameGrid, gridGraph>>

\* MovementSystem.onKeyUp; last keeps the record of the latest key-down event
OnKeyUp(eventKey) ==
    /\ keysPressed' = keysPressed \ {ToLowerCase(eventKey)}
    /\ UNCHANGED <<grid, gen, player, enemy, turnCounter, gameGrid, gridGraph, currentPhase,
                   last>>

GameGrids == WalledGrids(MaxGameTriangles)

GameDims == DimsWithEmpty(MaxGameTriangles)

NextGame ==
    \/ \E g \in GameGrids : DoSetGrid(g)
    \/ \E d \in GameDims : DoInitializeGrid(d[1], d[2])
    \/ \E eventKey \in EventKeys : OnKeyDown(eventKey)
    \/ \E eventKey \in EventKeys : OnKeyUp(eventKey)

SpecGame == InitGame /\ [][NextGame]_vars

(***************************************************************************)
(* Properties of the turn protocol                                         *)
(***************************************************************************)
TurnKeys == {<<"a">>, <<"d">>, KeyLeft, KeyRight}

\* a key event the MovementSystem takes as an action key: one of the four keys goes down
ActionKeyDown == \E key \in TurnKeys : key \notin keysPressed /\ key \in keysPressed'

\* the player issues a rotation that the MovementSystem carries out
RotationIssued ==
    /\ ActionKeyDown
    /\ gameGrid
    /\ currentPhase = ROTATION
    /\ HasTriangle(grid, player.row, player.col)

\* the player issues a move: Succeeds tells whether the faced side can be crossed
MoveIssued(succeeds) ==
    /\ ActionKeyDown
    /\ gameGrid
    /\ currentPhase = MOVEMENT
    /\ FacesOpenSide(grid, player) <=> succeeds

\* C9: a rotation or a successful move issued through the MovementSystem adds one
\* to turnCounter and runs one pursuit step of the enemy towards the player's new
\* state, finished when the handler returns, that is before the next key event.
C9_TurnPerSuccessfulAction ==
    [][(RotationIssued \/ MoveIssued(TRUE)) =>
          /\ turnCounter' = turnCounter + 1
          /\ last'.pursuits = 1
          /\ player' # player
          /\ enemy' = MoveEnemyTowardsPlayer(gridGraph, enemy, player')]_vars

C9_Witness ==
    /\ last.op = "keydown"
    /\ last.handler = MOVEMENT
    /\ last.result.success
    /\ last.pursuits = 1
    /\ turnCounter = 2
    /\ <<enemy.row, enemy.col>> # <<GetRowCount(grid) - 1, GetRowLength(grid, GetRowCount(grid) - 1) - 1>>

\* C10: a move whose faced side is a mirror or has no neighbor consumes no turn:
\* turnCounter, the player and the enemy are as before the key event.
C10_BlockedMoveConsumesNoTurn ==
    [][MoveIssued(FALSE) =>
          /\ turnCounter' = turnCounter
          /\ player' = player
          /\ enemy' = enemy]_vars

C10_Witness ==
    /\ last.op = "keydown"
    /\ last.handler = MOVEMENT
    /\ last.direction = FORWARD_RIGHT
    /\ ~last.result.success
    /\ turnCounter = 1
    /\ HasTriangle(grid, player.row, player.col)
    /\ grid.triangles[<<player.row, player.col>>].neighbors[player.orientation] # NoTriangle
    /\ grid.triangles[<<player.row, player.col>>].sides[player.orientation] = MIRROR

(***************************************************************************)
(* The terminal condition.  The GameState constructor sets grid,           *)
(* gridGraph, turnCounter, player and enemy; no statement of the class or  *)
(* of the MovementSystem assigns or reads a gameOver field, so the value   *)
(* read from gameState.gameOver is undefined (falsy) in every state.       *)
(***************************************************************************)
GameOver == FALSE

\* player and enemy stand on the same triangle
SameTriangle(pl, en) == pl.row = en.row /\ pl.col = en.col

\* an accepted action and its pursuit step have left player and enemy on one triangle;
\* positions change in accepted actions only, so this lasts until the next one
Collided == gameGrid /\ turnCounter >= 1 /\ SameTriangle(player, enemy)

\* C11: after an accepted player action and its pursuit step, player and enemy on
\* the same (row, col) means gameOver is true.
C11_CollisionSetsGameOver == Collided => GameOver

\* C12: once the game is over (player and enemy collided after an accepted action),
\* the player, the enemy and turnCounter never change again.
C12_NoMutationAfterGameOver ==
    [][Collided => /\ player' = player
                   /\ enemy' = enemy
                   /\ turnCounter' = turnCounter]_vars

(***************************************************************************)
(* Specification of the map text: a grid built by initialize or            *)
(* initializeFromMap, edited through setSideState, and written out and     *)
(* loaded again (initializeFromMap(exportToMap())) on the same object.     *)
(***************************************************************************)
\* grid.initializeFromMap(grid.exportToMap()); last keeps the grid before the call
DoRoundTrip ==
    /\ last.op \in BuiltOps \cup {"constructor"}
    /\ LET r == InitializeFromMap(ExportToMap(grid))
       IN  /\ grid' = r.grid
           /\ last' = [op |-> IF r.error THEN "roundTrip:throw" ELSE "roundTrip",
                        text |-> ExportToMap(grid), row |-> r.row, col |-> r.col,
                        before |-> grid]
    /\ UNCHANGED gen
    /\ GameUnchanged

\* grid.exportToMap() after a successful initializeFromMap(text); last keeps the text
\* that was loaded and the text returned
DoExportToMap ==
    /\ last.op = "initializeFromMap"
    /\ last' = [op |-> "exportToMap", text |-> last.text, exported |-> ExportToMap(grid)]
    /\ UNCHANGED <<grid, gen>>
    /\ GameUnchanged

MapDims == DimsWithEmpty(MaxTriangles)

MapKeys == KeyInputs(MaxTriangles)

NextMap ==
    \/ \E d \in MapDims : DoInitialize(d[1], d[2])
    \/ \E t \in MapTexts : DoInitializeFromMap(t)
    \/ \E k \in MapKeys, side \in SideInputs, state \in SideType :
          DoSetSideState(k, side, state)
    \/ DoRoundTrip
    \/ DoExportToMap

SpecMap == InitGrid /\ [][NextMap]_vars

(***************************************************************************)
(* Properties of the map text                                              *)
(***************************************************************************)
\* C13: loading the exported text of any grid gives a grid with the same rows and
\* row lengths in which every side of every triangle has the state it had.
C13_RoundTripKeepsGrid ==
    last.op \in {"roundTrip", "roundTrip:throw"} =>
        /\ last.op = "roundTrip"
        /\ grid.numRows = last.before.numRows
        /\ grid.rows = last.before.rows
        /\ DOMAIN grid.triangles = DOMAIN last.before.triangles
        /\ \A k \in DOMAIN grid.triangles :
               grid.triangles[k].sides = last.before.triangles[k].sides

\* the character of a well-formed text that gives one side of triangle (row, col): a
\* definition with its separator takes 6 characters, and rows[r] is row r - 1 of g
SideOffset == [left |-> 1, right |-> 3, third |-> 5]

TokenOf(text, g, k, side) ==
    text[SumSeq([r \in 1..k[1] |-> 6 * Len(g.rows[r])]) + 6 * k[2] + SideOffset[side]]

\* C14: after initializeFromMap on a well-formed text, both sides of every shared
\* edge have one state, mirror exactly when one of the two tokens of the edge is 'm',
\* and a side without a neighbor has the state its token gives.
C14_WallWins ==
    (last.op = "initializeFromMap" /\ last.text \in WellFormedTexts \cup RaggedTexts) =>
        \A k \in DOMAIN grid.triangles : \A side \in Sides :
            LET nb == grid.triangles[k].neighbors[side]
                own == TokenOf(last.text, grid, k, side)
            IN  IF nb = NoTriangle
                THEN grid.triangles[k].sides[side] = (IF own = "m" THEN MIRROR ELSE EMPTY)
                ELSE LET other == TokenOf(last.text, grid, nb, OppositeSide[side])
                     IN  /\ grid.triangles[k].sides[side]
                                = grid.triangles[nb].sides[OppositeSide[side]]
                         /\ grid.triangles[k].sides[side] = MIRROR
                                <=> (own = "m" \/ other = "m")

C14_Witness ==
    /\ last.op = "initializeFromMap"
    /\ last.text \in WellFormedTexts \cup RaggedTexts
    /\ \E ks \in SharedSides(grid.triangles) :
           /\ TokenOf(last.text, grid, ks[1], ks[2]) = "e"
           /\ TokenOf(last.text, grid, grid.triangles[ks[1]].neighbors[ks[2]],
                      OppositeSide[ks[2]]) = "m"
           /\ ks[1] = <<0, 0>>
    /\ \E ks \in BoundarySides(grid.triangles) : TokenOf(last.text, grid, ks[1], ks[2]) = "m"
    /\ \E ks \in BoundarySides(grid.triangles) : TokenOf(last.text, grid, ks[1], ks[2]) = "e"

\* the triangle definitions of a map text, by row, as initializeFromMap cuts them
DefinitionsOf(text) ==
    [r \in 1..Len(Split(Trim(text), "\n")) |->
        SplitWhitespace(Trim(Split(Trim(text), "\n")[r]))]

\* the number of pipe-delimited fields of a definition
FieldCount(def) == Cardinality({i \in 1..Len(def) : def[i] = "|"}) + 1

\* the (row, col) of the definitions that do not have exactly 3 fields
BadDefinitions(text) ==
    UNION {{<<r - 1, c - 1>> : c \in {x \in 1..Len(DefinitionsOf(text)[r]) :
                                          FieldCount(DefinitionsOf(text)[r][x]) # 3}} :
           r \in 1..Len(DefinitionsOf(text))}

RowMajorLeq(a, b) == a[1] < b[1] \/ (a[1] = b[1] /\ a[2] <= b[2])

\* C15: initializeFromMap throws exactly when some definition of the text does not
\* have 3 pipe-delimited fields, and the error names the first one in row-major order.
C15_ErrorNamesFirstBadDefinition ==
    last.op \in {"initializeFromMap", "initializeFromMap:throw"} =>
        /\ last.op = "initializeFromMap:throw" <=> BadDefinitions(last.text) # {}
        /\ last.op = "initializeFromMap:throw" =>
               /\ <<last.row, last.col>> \in BadDefinitions(last.text)
               /\ \A b \in BadDefinitions(last.text) : RowMajorLeq(<<last.row, last.col>>, b)

C15_Witness ==
    /\ last.op = "initializeFromMap:throw"
    /\ Cardinality(BadDefinitions(last.text)) >= 3
    /\ <<last.row, last.col>> = <<0, 1>>

\* C16: a call of initializeFromMap that throws leaves rows, the triangle lookup,
\* numRows and all side states as they were before the call.
C16_FailedLoadKeepsGrid ==
    [][last'.op = "initializeFromMap:throw" => grid' = grid]_vars

(***************************************************************************)
(* Specification of two calls of generateRandomGrid with the same          *)
(* arguments on one grid object; the grid left by the first call is kept   *)
(* in last.first.                                                          *)
(***************************************************************************)
SeedDims == Dims(MaxGenTriangles)

NextSeed ==
    \/ \E d \in SeedDims, m \in DensityInputs, seed \in SeedInputs :
          GenerateStart(d[1], d[2], m, seed)
    \/ CarveStep
    \/ FinishGenerate
    \/ GenerateAgain

SpecSeed == InitGrid /\ [][NextSeed]_vars

\* the side states of every triangle, by key
SideStates(g) == [k \in DOMAIN g.triangles |-> g.triangles[k].sides]

SecondCallDone == last.op = "generateRandomGrid" /\ "first" \in DOMAIN last

\* C17: two calls of generateRandomGrid with the same numRows, trianglesPerRow and
\* mirrorDensity and the same non-null rngSeed, number or string, leave grids with
\* identical side states on every triangle
C17_SameSeedSameGrid ==
    (SecondCallDone /\ last.args.rngSeed.kind # "none") =>
        SideStates(grid) = SideStates(last.first)

\* a second seeded call has finished on a grid of at least 2 x 2 triangles whose density
\* adjustment had to open edges beyond the carved tree
C17_Witness ==
    /\ SecondCallDone
    /\ last.args.rngSeed.kind = "string"
    /\ last.args.numRows >= 2 /\ last.args.trianglesPerRow >= 2
    /\ Cardinality({ks \in SharedSides(grid.triangles) :
                      grid.triangles[ks[1]].sides[ks[2]] = EMPTY})
          > 2 * (Cardinality(DOMAIN grid.triangles) - 1)

\* the open edges of a grid: each shared edge with an empty side once, and the empty
\* sides without a neighbor
OpenEdgeCount(tris) ==
    Cardinality({{ks[1], tris[ks[1]].neighbors[ks[2]]} :
                    ks \in {x \in SharedSides(tris) : tris[x[1]].sides[x[2]] = EMPTY}})
        + Cardinality(EmptyBoundarySides(tris))

InternalEdgeCount(tris) ==
    Cardinality({{ks[1], tris[ks[1]].neighbors[ks[2]]} : ks \in SharedSides(tris)})

TotalEdgeCount(tris) == InternalEdgeCount(tris) + Cardinality(BoundarySides(tris))

\* C18: for every mirrorDensity, in range or not, generateRandomGrid returns with the
\* density clamped to [minDensity, maxDensity], and the number of open edges of the grid
\* (each shared edge once, plus the open boundary side) equals
\* round(totalEdges * (1 - clampedDensity)) and lies in
\* [triangleCount, internalEdgeCount + 1]
C18_OpenEdgesMatchDensity ==
    last.op = "generateRandomGrid" =>
        LET tris          == grid.triangles
            totalEdges    == TotalEdgeCount(tris)
            triangleCount == Cardinality(DOMAIN tris)
            maxOpenEdges  == InternalEdgeCount(tris) + 1
            density       == gen.desiredDensity
        IN  /\ density.num * totalEdges >= (totalEdges - maxOpenEdges) * density.den
            /\ density.num * totalEdges <= (totalEdges - triangleCount) * density.den
            /\ OpenEdgeCount(tris) = TargetOpenEdges(totalEdges, density)
            /\ OpenEdgeCount(tris) >= triangleCount
            /\ OpenEdgeCount(tris) <= maxOpenEdges

(***************************************************************************)
(* Specification of the rotations of one Character.  last follows a run of *)
(* rotations with one pointsUp value: the orientation it started from, the *)
(* rotations applied since, the orientation before the latest one, and the *)
(* orientation GridGraph.getRotatedOrientation gives along the same run.   *)
(***************************************************************************)
NoRun(op, orientation) ==
    [op |-> op, pointsUp |-> FALSE, origin |-> orientation, trail |-> <<>>,
     before |-> orientation, viaGraph |-> orientation]

\* the record of a run after one more rotation
RunAfter(op, pointsUp, clockwise) ==
    IF last.trail # <<>> /\ last.pointsUp = pointsUp /\ Len(last.trail) < MaxRotations
    THEN [op |-> op, pointsUp |-> pointsUp, origin |-> last.origin,
          trail |-> Append(last.trail, clockwise), before |-> player.orientation,
          viaGraph |-> GetRotatedOrientation(last.viaGraph, pointsUp, clockwise)]
    ELSE [op |-> op, pointsUp |-> pointsUp, origin |-> player.orientation,
          trail |-> <<clockwise>>, before |-> player.orientation,
          viaGraph |-> GetRotatedOrientation(player.orientation, pointsUp, clockwise)]

InitTurn ==
    /\ grid = NewGrid
    /\ gen = GenIdle
    /\ player = NewCharacter
    /\ enemy = NewCharacter
    /\ turnCounter = 0
    /\ gameGrid = FALSE
    /\ gridGraph = NullGraph
    /\ currentPhase = "rotation"
    /\ keysPressed = {}
    /\ last = NoRun("constructor", NewCharacter.orientation)

\* player.setPosition(row, col, orientation)
TurnSetPosition(row, col, orientation) ==
    /\ player' = SetPosition(player, row, col, orientation)
    /\ last' = NoRun("setPosition", player'.orientation)
    /\ UNCHANGED grid
    /\ CharFrame

\* player.rotateClockwise(pointsUp)
TurnClockwise(pointsUp) ==
    /\ player' = [player EXCEPT !.orientation = RotateClockwise(@, pointsUp)]
    /\ last' = RunAfter("rotateClockwise", pointsUp, TRUE)
    /\ UNCHANGED grid
    /\ CharFrame

\* player.rotateCounterClockwise(pointsUp)
TurnCounterClockwise(pointsUp) ==
    /\ player' = [player EXCEPT !.orientation = RotateCounterClockwise(@, pointsUp)]
    /\ last' = RunAfter("rotateCounterClockwise", pointsUp, FALSE)
    /\ UNCHANGED grid
    /\ CharFrame

TurnPositions == PositionInputs(MaxMapTriangles)

NextTurn ==
    \/ \E p \in TurnPositions, o \in OrientationInputs : TurnSetPosition(p[1], p[2], o)
    \/ \E pointsUp \in BOOLEAN : TurnClockwise(pointsUp)
    \/ \E pointsUp \in BOOLEAN : TurnCounterClockwise(pointsUp)

SpecTurn == InitTurn /\ [][NextTurn]_vars

\* C19: for each pointsUp value and each orientation, three rotateClockwise calls return
\* the original orientation, three rotateCounterClockwise calls return the original
\* orientation, and each single rotation yields a different orientation of
\* {left, right, third}
C19_ThreeRotationsReturn ==
    /\ last.trail \in {<<TRUE, TRUE, TRUE>>, <<FALSE, FALSE, FALSE>>} =>
          player.orientation = last.origin
    /\ last.trail # <<>> =>
          /\ player.orientation \in OrientationSet
          /\ player.orientation # last.before

\* a character set to face third has been rotated clockwise three times on a
\* down-pointing triangle
C19_Witness ==
    /\ last.trail = <<TRUE, TRUE, TRUE>>
    /\ ~last.pointsUp
    /\ last.origin = "third"
    /\ last.op = "rotateClockwise"

\* C20: for each pointsUp value and each orientation o, rotateCounterClockwise undoes
\* rotateClockwise and rotateClockwise undoes rotateCounterClockwise, in Character and in
\* GridGraph.getRotatedOrientation, and the two give the same orientation on every input
C20_RotationsAreInverse ==
    /\ last.trail \in {<<TRUE, FALSE>>, <<FALSE, TRUE>>} =>
          /\ player.orientation = last.origin
          /\ last.viaGraph = last.origin
    /\ last.viaGraph = player.orientation

\* a character facing right on a down-pointing triangle has been rotated
\* counter-clockwise and then clockwise
C20_Witness ==
    /\ last.trail = <<FALSE, TRUE>>
    /\ ~last.pointsUp
    /\ last.origin = "right"
    /\ last.op = "rotateClockwise"

(***************************************************************************)
(* Properties of the graph, the pursuit and the phases                     *)
(***************************************************************************)
RotationEdges(graph, n) ==
    {i \in 1..Len(graph.nodes[n]) : graph.nodes[n][i].edgeType = "rotation"}

\* C21: after buildFromGrid the graph has one node for each (row, col, orientation) of
\* the grid, 3 * triangleCount nodes in all, and every node has exactly 2 rotation
\* edges, one clockwise and one counterclockwise, whose targets are the two other
\* orientation nodes of the same triangle
C21_NodesAndRotationEdges ==
    ~gridGraph.null =>
        /\ DOMAIN gridGraph.nodes =
               {<<k[1], k[2], o>> : k \in DOMAIN grid.triangles, o \in OrientationSet}
        /\ Cardinality(DOMAIN gridGraph.nodes) = 3 * Cardinality(DOMAIN grid.triangles)
        /\ \A n \in DOMAIN gridGraph.nodes :
               LET rot == RotationEdges(gridGraph, n)
               IN  /\ Cardinality(rot) = 2
                   /\ Cardinality({i \in rot : gridGraph.nodes[n][i].action = "clockwise"}) = 1
                   /\ Cardinality({i \in rot :
                                      gridGraph.nodes[n][i].action = "counterclockwise"}) = 1
                   /\ {gridGraph.nodes[n][i].targetNode : i \in rot} =
                          {<<n[1], n[2], o>> : o \in OrientationSet \ {n[3]}}

\* a graph built from a grid of several rows in which some node also has movement edges
C21_Witness ==
    /\ ~gridGraph.null
    /\ GetRowCount(grid) >= 2
    /\ Cardinality(DOMAIN gridGraph.nodes) >= 12
    /\ \E n \in DOMAIN gridGraph.nodes :
           /\ ~grid.triangles[<<n[1], n[2]>>].pointsUp
           /\ Len(gridGraph.nodes[n]) = 4

CharacterNode(ch) == <<ch.row, ch.col, ch.orientation>>

\* a step in which incrementTurn ran, and with it one pursuit step
TurnTaken == turnCounter' = turnCounter + 1

\* C22: findPathAStar returns at most 5 nodes and never the start node; a pursuit step
\* that is returned a node sets the enemy's (row, col, orientation) to exactly the first
\* returned node, which is one GridGraph edge (one rotation or one movement) away from
\* the enemy's node, so the enemy advances along exactly one edge in that turn
C22_PursuitTakesFirstNode ==
    [][TurnTaken =>
          LET returned == FindPathAStar(gridGraph, GetNode(gridGraph, enemy.row, enemy.col,
                                                           enemy.orientation),
                                        GetNode(gridGraph, player'.row, player'.col,
                                                player'.orientation)).returned
          IN  /\ Len(returned) <= 5
              /\ \A i \in 1..Len(returned) : returned[i] # CharacterNode(enemy)
              /\ returned # <<>> =>
                    /\ CharacterNode(enemy') = returned[1]
                    /\ Cardinality({i \in 1..Len(gridGraph.nodes[CharacterNode(enemy)]) :
                                       /\ gridGraph.nodes[CharacterNode(enemy)][i].targetNode
                                              = CharacterNode(enemy')
                                       /\ gridGraph.nodes[CharacterNode(enemy)][i].edgeType
                                              \in {"rotation", "movement"}}) = 1]_vars

\* after a rotation of the player the enemy has left its corner along a movement edge
\* and has not reached the player's node yet
C22_Witness ==
    /\ last.op = "keydown"
    /\ last.handler = ROTATION
    /\ last.pursuits = 1
    /\ turnCounter = 2
    /\ <<enemy.row, enemy.col>> #
          <<GetRowCount(grid) - 1, GetRowLength(grid, GetRowCount(grid) - 1) - 1>>
    /\ CharacterNode(enemy) # CharacterNode(player)

(***************************************************************************)
(* Specification of the pursuit: the GameState, bound to a grid or not,    *)
(* has its enemy and its player put on any position, on the grid or off    *)
(* it, and then takes turns.  last keeps what findEnemyPathToPlayer        *)
(* returned to the latest pursuit step and the enemy before that step.     *)
(***************************************************************************)
\* gameState.setEnemyPosition(row, col, orientation)
DoSetEnemyPosition(row, col, orientation) ==
    /\ last.op \in {"constructor", "setGrid"}
    /\ enemy' = SetPosition(enemy, row, col, orientation)
    /\ last' = [NoSearch EXCEPT !.op = "setEnemyPosition"]
    /\ UNCHANGED <<grid, gen, player, turnCounter, gameGrid, gridGraph, currentPhase,
                   keysPressed>>

\* gameState.setPlayerPosition(row, col, orientation)
DoSetPlayerPosition(row, col, orientation) ==
    /\ last.op = "setEnemyPosition"
    /\ player' = SetPosition(player, row, col, orientation)
    /\ last' = [NoSearch EXCEPT !.op = "setPlayerPosition"]
    /\ UNCHANGED <<grid, gen, enemy, turnCounter, gameGrid, gridGraph, currentPhase,
                   keysPressed>>

\* gameState.incrementTurn()
DoIncrementTurn ==
    /\ last.op \in {"setPlayerPosition", "incrementTurn"}
    /\ turnCounter < MaxTurns
    /\ turnCounter' = IncrementTurn(gridGraph, turnCounter, enemy, player).turnCounter
    /\ enemy' = IncrementTurn(gridGraph, turnCounter, enemy, player).enemy
    /\ last' = [op |-> "incrementTurn", path |-> FindEnemyPathToPlayer(gridGraph, enemy, player),
                before |-> enemy]
    /\ UNCHANGED <<grid, gen, player, gameGrid, gridGraph, currentPhase, keysPressed>>

PursuitGrids == WalledGridsOf(DimsWithEmpty(MaxGameTriangles), {TRUE})

PursuitPositions == PositionInputs(MaxGameTriangles)

NextPursuit ==
    \/ \E g \in PursuitGrids : DoSetGrid(g)
    \/ \E p \in PursuitPositions, o \in OrientationSet : DoSetEnemyPosition(p[1], p[2], o)
    \/ \E p \in PursuitPositions, o \in OrientationSet : DoSetPlayerPosition(p[1], p[2], o)
    \/ DoIncrementTurn

SpecPursuit == InitGame /\ [][NextPursuit]_vars

\* no path of the graph leads from the node of en to the node of pl, or one of the two
\* is not a node of the graph
Unreachable(graph, en, pl) ==
    \/ CharacterNode(en) \notin DOMAIN graph.nodes
    \/ CharacterNode(pl) \notin DOMAIN graph.nodes
    \/ Distance(graph, CharacterNode(en), CharacterNode(pl)) < 0

\* C23: when no GridGraph path leads from the enemy's node to the player's node, or
\* either node is missing from the graph, the path search returns an empty list and
\* the pursuit step leaves the enemy's row, col and orientation unchanged for that turn
C23_NoPathEnemyWaits ==
    (last.op = "incrementTurn" /\ ~gridGraph.null
        /\ Unreachable(gridGraph, last.before, player)) =>
        /\ last.path = <<>>
        /\ enemy = last.before

\* a turn was taken with both nodes in the graph and the player walled off from the enemy
C23_Witness ==
    /\ last.op = "incrementTurn"
    /\ ~gridGraph.null
    /\ CharacterNode(last.before) \in DOMAIN gridGraph.nodes
    /\ CharacterNode(player) \in DOMAIN gridGraph.nodes
    /\ Distance(gridGraph, CharacterNode(last.before), CharacterNode(player)) < 0
    /\ turnCounter = 2

(***************************************************************************)
(* Specification of the search loop: findPathAStar runs one iteration of   *)
(* its main loop per step.  last.st is the search state (open set, closed  *)
(* set, scores, parents) and last.search.iterations the iterations so far. *)
(***************************************************************************)
NoSearchState == [openSet |-> <<>>, closedSet |-> {}, gScore |-> EmptyMap, cameFrom |-> EmptyMap]

\* gameState.findPathAStar(startNode, endNode) up to its main loop
BeginFindPathAStar(startNode) ==
    /\ last.op = "setGrid"
    /\ startNode \in (DOMAIN gridGraph.nodes) \cup {NoNode}
    /\ \E endNode \in (DOMAIN gridGraph.nodes) \cup {NoNode} :
           last' = IF gridGraph.null \/ startNode = NoNode \/ endNode = NoNode
                   THEN [op |-> "findPathAStar", start |-> startNode, goal |-> endNode,
                         search |-> NoPath, st |-> NoSearchState]
                   ELSE [op |-> "searching", start |-> startNode, goal |-> endNode,
                         search |-> NoPath, st |-> AStarStart(startNode, endNode)]
    /\ UNCHANGED <<grid, gen, player, enemy, turnCounter, gameGrid, gridGraph,
                   currentPhase, keysPressed>>

\* one iteration of the main loop, or the return after it
LoopFindPathAStar ==
    /\ last.op = "searching"
    /\ \E step \in {AStarStep(gridGraph, last.goal, last.st, last.search.iterations)} :
           last' = [last EXCEPT !.op = IF step.done THEN "findPathAStar" ELSE "searching",
                                !.st = step.st,
                                !.search = step.result]
    /\ UNCHANGED <<grid, gen, player, enemy, turnCounter, gameGrid, gridGraph,
                   currentPhase, keysPressed>>

SearchNodes == NodeInputs(MaxGameTriangles)

NextSearch ==
    \/ \E g \in PursuitGrids : DoSetGrid(g)
    \/ \E startNode \in SearchNodes : BeginFindPathAStar(startNode)
    \/ LoopFindPathAStar

\* a call that has started runs its next iteration: weak fairness of LoopFindPathAStar,
\* WF_vars(LoopFindPathAStar), with ENABLED <<LoopFindPathAStar>>_vars written as the
\* guard of the action (the action changes last whenever its guard holds)
SpecSearch ==
    /\ InitGame
    /\ [][NextSearch]_vars
    /\ []<>(last.op # "searching") \/ []<><<LoopFindPathAStar>>_vars

OpenIds(st) == {st.openSet[i].id : i \in 1..Len(st.openSet)}

\* every iteration so far has removed a different node from the open set, no closed node
\* is open, no node is open twice, and the iterations are at most the number of nodes
SearchBounded ==
    last.op \in {"searching", "findPathAStar"} =>
        /\ Len(last.st.openSet) = Cardinality(OpenIds(last.st))
        /\ OpenIds(last.st) \cap last.st.closedSet = {}
        /\ last.search.iterations =
              Cardinality(last.st.closedSet) + (IF last.search.found THEN 1 ELSE 0)
        /\ last.search.iterations <= 3 * Cardinality(DOMAIN grid.triangles)

\* C24: findPathAStar terminates on every pair of graph nodes: each node is removed from
\* the open set at most once and never re-opened after it enters the closed set, so the
\* main loop runs at most 3 * triangleCount iterations before a path or the empty result
\* is returned
C24_SearchTerminates ==
    /\ []SearchBounded
    /\ (last.op = "searching") ~> (last.op = "findPathAStar")

\* a search without a path has returned after an iteration for every node outside the
\* triangle of its goal
C24_Witness ==
    /\ last.op = "findPathAStar"
    /\ ~last.search.found
    /\ last.start # NoNode /\ last.goal # NoNode
    /\ Cardinality(DOMAIN grid.triangles) >= 3
    /\ last.search.iterations = 3 * (Cardinality(DOMAIN grid.triangles) - 1)

\* a forward key (w / ArrowUp) goes down
ForwardKeyDown == \E key \in {<<"w">>, KeyUp} : key \notin keysPressed /\ key \in keysPressed'

\* a backward key (s / ArrowDown) goes down
BackwardKeyDown ==
    \E key \in {<<"s">>, KeyDown} : key \notin keysPressed /\ key \in keysPressed'

\* C25: the MovementSystem starts in phase ROTATION; from either phase, whatever the game
\* state, a forward key going down sets the phase to MOVEMENT and a backward key going
\* down sets it to ROTATION, and no other step changes the phase
C25_PhaseSwitches ==
    /\ currentPhase = ROTATION
    /\ [][/\ ForwardKeyDown => currentPhase' = MOVEMENT
          /\ BackwardKeyDown => currentPhase' = ROTATION
          /\ ~(ForwardKeyDown \/ BackwardKeyDown) => currentPhase' = currentPhase]_vars

\* the movement phase was entered by a key event before any grid was bound
C25_Witness ==
    /\ last.op = "keydown"
    /\ last.handler = "phase"
    /\ currentPhase = MOVEMENT
    /\ ~gameGrid
    /\ keysPressed = {KeyUp}

\* the left turn input (a / ArrowLeft) goes down
LeftKeyDown == \E key \in {<<"a">>, KeyLeft} : key \notin keysPressed /\ key \in keysPressed'

\* the right turn input (d / ArrowRight) goes down
RightKeyDown == \E key \in {<<"d">>, KeyRight} : key \notin keysPressed /\ key \in keysPressed'

\* the player after a rotation on its current triangle
PlayerRotated(clockwise) ==
    LET pointsUp == grid.triangles[<<player.row, player.col>>].pointsUp
    IN  [player EXCEPT !.orientation = IF clockwise THEN RotateClockwise(@, pointsUp)
                                       ELSE RotateCounterClockwise(@, pointsUp)]

\* C26: with a grid bound, in phase ROTATION the left turn input applies
\* rotateCounterClockwise and the right turn input rotateClockwise to the player, with the
\* pointsUp of the player's current triangle, and the player's (row, col) stays; in phase
\* MOVEMENT the left turn input applies move(grid, forward_left) and the right turn input
\* move(grid, forward_right)
C26_TurnInputsByPhase ==
    [][gameGrid =>
          /\ (currentPhase = ROTATION /\ HasTriangle(grid, player.row, player.col)) =>
                /\ LeftKeyDown => player' = PlayerRotated(FALSE)
                /\ RightKeyDown => player' = PlayerRotated(TRUE)
                /\ (LeftKeyDown \/ RightKeyDown) =>
                      player'.row = player.row /\ player'.col = player.col
          /\ currentPhase = MOVEMENT =>
                /\ LeftKeyDown => player' = Move(grid, player, FORWARD_LEFT).character
                /\ RightKeyDown => player' = Move(grid, player, FORWARD_RIGHT).character]_vars

\* the player has been rotated counter-clockwise twice with the ArrowLeft key
C26_Witness ==
    /\ last.op = "keydown"
    /\ last.handler = ROTATION
    /\ keysPressed = {KeyLeft}
    /\ turnCounter = 2
    /\ player.row = 0 /\ player.col = 0
    /\ player.orientation = "right"

\* C27: after setGrid or initializeGrid with a non-empty grid and any sequence of player
\* inputs with their pursuit steps, the player's and the enemy's (row, col) name a
\* triangle of the grid and their orientation is one of left, right, third
C27_CharactersStayOnGrid ==
    (gameGrid /\ DOMAIN grid.triangles # {}) =>
        /\ HasTriangle(grid, player.row, player.col)
        /\ HasTriangle(grid, enemy.row, enemy.col)
        /\ player.orientation \in OrientationSet
        /\ enemy.orientation \in OrientationSet

\* after two turns the player has left its start triangle and the enemy its corner
C27_Witness ==
    /\ gameGrid
    /\ turnCounter = 2
    /\ <<player.row, player.col>> # <<0, 0>>
    /\ <<enemy.row, enemy.col>> #
          <<GetRowCount(grid) - 1, GetRowLength(grid, GetRowCount(grid) - 1) - 1>>

\* the two tokens of every shared edge of the loaded grid are the same character
TokensAgree(text, g) ==
    \A ks \in SharedSides(g.triangles) :
        TokenOf(text, g, ks[1], ks[2])
            = TokenOf(text, g, g.triangles[ks[1]].neighbors[ks[2]], OppositeSide[ks[2]])

\* C28: for a map text of 'e'/'m' tokens separated by single spaces whose tokens agree
\* on every shared edge, initializeFromMap followed by exportToMap returns the text
C28_ExportReturnsLoadedText ==
    (/\ last.op = "exportToMap"
     /\ last.text \in WellFormedTexts \cup RaggedTexts
     /\ TokensAgree(last.text, grid)) =>
        last.exported = last.text

\* a text of more than one row with a shared edge on which both tokens are 'm' was
\* loaded and exported
C28_Witness ==
    /\ last.op = "exportToMap"
    /\ last.text \in WellFormedTexts \cup RaggedTexts
    /\ TokensAgree(last.text, grid)
    /\ Len(grid.rows) > 1
    /\ \E ks \in SharedSides(grid.triangles) : TokenOf(last.text, grid, ks[1], ks[2]) = "m"

\* the search that was run went from the enemy's node to the player's node on a grid
\* with a triangle in which every side with a neighbor is empty
TrivialMazeSearch ==
    /\ last.op = "findPathAStar"
    /\ DOMAIN grid.triangles # {}
    /\ \A ks \in SharedSides(grid.triangles) : grid.triangles[ks[1]].sides[ks[2]] = EMPTY
    /\ last.start = CharacterNode(enemy)
    /\ last.goal = CharacterNode(player)

\* C29: on a grid built by initialize with the player at (0, 0, left) and the enemy at
\* (maxRow, maxCol, right), findPathAStar from the enemy's node to the player's node
\* returns a non-empty path whose last node is strictly nearer to the player's node in
\* Manhattan distance than the enemy's node (stated for grids of more than one triangle:
\* on the 1 x 1 grid both stand on (0, 0) and no distance is smaller than 0)
C29_PathApproachesPlayer ==
    (TrivialMazeSearch /\ ~SameTriangle(player, enemy)) =>
        /\ last.search.returned # <<>>
        /\ ManhattanDistance(last.search.returned[Len(last.search.returned)], last.goal)
               < ManhattanDistance(last.start, last.goal)

\* C30: setSideState with a side name that is not left, right or third is a no-op: no
\* side state of any triangle changes
C30_UnknownSideIsNoOp ==
    [][(last'.op = "setSideState" /\ ~last'.sideNamed) => grid' = grid]_vars

\* a call with an unknown side name was made on a grid that has an empty side
C30_Witness ==
    /\ last.op = "setSideState"
    /\ ~last.sideNamed
    /\ \E k \in DOMAIN grid.triangles : \E s \in Sides : grid.triangles[k].sides[s] = EMPTY

\* the positions of the movement edges in the edge list of node n
AllMovementEdges(graph, n) ==
    {i \in 1..Len(graph.nodes[n]) : graph.nodes[n][i].edgeType = "movement"}

\* C31: every node has 0 or exactly 2 movement edges; when it has 2 they lead to two
\* different orientation nodes of the neighbor across the faced side, and neither target
\* faces the side of the neighbor that lies on the crossed edge
C31_MovementEdgesLeaveEnteredSide ==
    gameGrid =>
        \A n \in DOMAIN gridGraph.nodes :
            LET edges == gridGraph.nodes[n]
                moves == AllMovementEdges(gridGraph, n)
                nb    == grid.triangles[<<n[1], n[2]>>].neighbors[n[3]]
            IN  /\ Cardinality(moves) \in {0, 2}
                /\ moves # {} =>
                      /\ nb # NoTriangle
                      /\ \A i \in moves :
                             /\ <<edges[i].targetNode[1], edges[i].targetNode[2]>> = nb
                             /\ edges[i].targetNode[3] # OppositeSide[n[3]]
                      /\ \A i, j \in moves :
                             i # j => edges[i].targetNode # edges[j].targetNode

\* a graph was built in which a node facing left, a node facing right and a node facing
\* third have movement edges and some node has none
C31_Witness ==
    /\ gameGrid
    /\ \A o \in OrientationSet :
           \E n \in DOMAIN gridGraph.nodes :
               n[3] = o /\ AllMovementEdges(gridGraph, n) # {}
    /\ \E n \in DOMAIN gridGraph.nodes : AllMovementEdges(gridGraph, n) = {}

\* the grid has a triangle and every triangle is reachable from every other one by
\* crossing sides that are empty and have a neighbor
EmptyEdgesConnected(g) ==
    /\ DOMAIN g.triangles # {}
    /\ \A k \in DOMAIN g.triangles :
           ReachableThroughEmpty(g.triangles, {k}) = DOMAIN g.triangles

\* C32: on a grid whose empty-edge subgraph is connected, findPathAStar returns a
\* non-empty path for every pair of distinct nodes of the graph
C32_ConnectedMazeHasPath ==
    (/\ last.op = "findPathAStar"
     /\ last.start # NoNode
     /\ last.goal # NoNode
     /\ last.start # last.goal
     /\ EmptyEdgesConnected(grid)) =>
        /\ last.search.found
        /\ last.search.returned # <<>>

\* a search on a connected grid of at least four triangles, one of them with a wall,
\* between nodes of different triangles whose path is longer than the five nodes returned
C32_Witness ==
    /\ last.op = "findPathAStar"
    /\ last.start # NoNode
    /\ last.goal # NoNode
    /\ <<last.start[1], last.start[2]>> # <<last.goal[1], last.goal[2]>>
    /\ EmptyEdgesConnected(grid)
    /\ Cardinality(DOMAIN grid.triangles) >= 4
    /\ \E ks \in SharedSides(grid.triangles) : grid.triangles[ks[1]].sides[ks[2]] = MIRROR
    /\ Len(last.search.path) > 6

\* C33: in every grid built by initialize or initializeFromMap (rows of different
\* lengths included) a neighbor B of A across side S has A as its neighbor across the
\* corresponding side, no triangle is its own neighbor, and no triangle is the neighbor
\* of another across two different sides
C33_NeighborsSymmetricSimple ==
    last.op \in {"initialize", "initializeFromMap", "roundTrip", "setSideState", "exportToMap"} =>
        \A k \in DOMAIN grid.triangles :
            /\ \A s \in Sides :
                   LET nb == grid.triangles[k].neighbors[s]
                   IN  nb # NoTriangle =>
                          /\ nb \in DOMAIN grid.triangles
                          /\ nb # k
                          /\ grid.triangles[nb].neighbors[OppositeSide[s]] = k
            /\ \A s, t \in Sides :
                   (s # t /\ grid.triangles[k].neighbors[s] # NoTriangle) =>
                       grid.triangles[k].neighbors[s] # grid.triangles[k].neighbors[t]

\* a text with rows of different lengths was loaded: one triangle has a neighbor in the
\* other row and a triangle of the longer row has none there
C33_Witness ==
    /\ last.op = "initializeFromMap"
    /\ last.text \in RaggedTexts
    /\ \E k \in DOMAIN grid.triangles : grid.triangles[k].neighbors["third"] # NoTriangle
    /\ \E k \in DOMAIN grid.triangles :
           /\ grid.triangles[k].neighbors["third"] = NoTriangle
           /\ grid.triangles[k].neighbors["left"] # NoTriangle

\* the shared edges whose sides are empty, each taken once
OpenSharedEdges(tris) ==
    {{ks[1], tris[ks[1]].neighbors[ks[2]]} :
        ks \in {x \in SharedSides(tris) : tris[x[1]].sides[x[2]] = EMPTY}}

\* the sets of triangles that are mutually reachable through empty shared sides
EmptyEdgeComponents(tris) == {ReachableThroughEmpty(tris, {k}) : k \in DOMAIN tris}

\* the requested density, clamped to [0, 1] (0.65 when not finite), is at or above
\* maxDensity = (totalEdges - triangleCount) / totalEdges
DensityAtFeasibleMax(mirrorDensity, tris) ==
    LET d0 == InitialDensity(mirrorDensity)
    IN  d0.num * TotalEdgeCount(tris)
            >= (TotalEdgeCount(tris) - Cardinality(DOMAIN tris)) * d0.den

\* C34: when the requested density is at or above the feasible maximum, the open shared
\* edges of the grid left by generateRandomGrid number exactly triangleCount - 1,
\* connect all triangles and contain no cycle
C34_CarveOpensSpanningTree ==
    (last.op = "generateRandomGrid"
        /\ DensityAtFeasibleMax(last.args.mirrorDensity, grid.triangles)) =>
        /\ Cardinality(OpenSharedEdges(grid.triangles)) = Cardinality(DOMAIN grid.triangles) - 1
        /\ Cardinality(EmptyEdgeComponents(grid.triangles)) = 1
        /\ Cardinality(OpenSharedEdges(grid.triangles))
               = Cardinality(DOMAIN grid.triangles)
                    - Cardinality(EmptyEdgeComponents(grid.triangles))

(***************************************************************************)
(* setSideState with the call on record.  The grid is built by initialize  *)
(* or from a map text whose rows have different lengths and edited by any  *)
(* sequence of setSideState calls; one more call is then made whose        *)
(* triangle, side name, state and the grid before it are kept in last.     *)
(***************************************************************************)
\* triangle.setSideState(side, state) on triangle k of a built grid, kept on record
DoSetSideStateCall(k, side, state) ==
    /\ last.op \in {"initialize", "initializeFromMap", "setSideState"}
    /\ k \in DOMAIN grid.triangles
    /\ grid' = [grid EXCEPT !.triangles = SetSideState(@, k, side, state, TRUE)]
    /\ last' = [op |-> "setSideState:call", k |-> k, side |-> side, state |-> state,
                before |-> grid]
    /\ UNCHANGED gen
    /\ GameUnchanged

SideKeys == KeyInputs(MaxGameTriangles)

NextSide ==
    \/ \E d \in GameDims : DoInitialize(d[1], d[2])
    \/ \E t \in RaggedTexts : DoInitializeFromMap(t)
    \/ \E k \in SideKeys, side \in SideInputs, state \in SideType :
          DoSetSideState(k, side, state)
    \/ \E k \in SideKeys, side \in SideInputs, state \in SideType :
          DoSetSideStateCall(k, side, state)

SpecSide == InitGrid /\ [][NextSide]_vars

\* the sides setSideState(side, state) on triangle k may write: the side itself and, when
\* there is a neighbor across it, the neighbor's corresponding side
WrittenSides(tris, k, side) ==
    IF side \notin Sides THEN {}
    ELSE {<<k, side>>} \cup
         (IF tris[k].neighbors[side] # NoTriangle
          THEN {<<tris[k].neighbors[side], OppositeSide[side]>>} ELSE {})

\* C35: setSideState(side, state) on triangle A sets A's state for that side and, when A
\* has a neighbor across it, the neighbor's corresponding side; every other side of every
\* triangle, all neighbor links and every pointsUp flag are unchanged
C35_SetSideStateFrame ==
    last.op = "setSideState:call" =>
        /\ DOMAIN grid.triangles = DOMAIN last.before.triangles
        /\ grid.rows = last.before.rows
        /\ grid.numRows = last.before.numRows
        /\ \A x \in DOMAIN grid.triangles :
               /\ grid.triangles[x].neighbors = last.before.triangles[x].neighbors
               /\ grid.triangles[x].pointsUp = last.before.triangles[x].pointsUp
               /\ \A s \in Sides :
                      grid.triangles[x].sides[s] =
                          IF <<x, s>> \in WrittenSides(last.before.triangles, last.k, last.side)
                          THEN last.state ELSE last.before.triangles[x].sides[s]

\* a call changed a shared edge of a grid of three triangles from empty to mirror while
\* another shared edge was mirror and a boundary side was empty
C35_Witness ==
    /\ last.op = "setSideState:call"
    /\ last.state = MIRROR
    /\ last.side \in Sides
    /\ Cardinality(DOMAIN grid.triangles) >= 3
    /\ last.before.triangles[last.k].neighbors[last.side] # NoTriangle
    /\ last.before.triangles[last.k].sides[last.side] = EMPTY
    /\ Cardinality({ks \in SharedSides(grid.triangles) :
                       grid.triangles[ks[1]].sides[ks[2]] = MIRROR}) = 4
    /\ EmptyBoundarySides(grid.triangles) # {}

\* the number of edges of a shortest path from the enemy's node to the player's node,
\* or -1 when there is none or a node is missing
PursuitDistance(graph, en, pl) ==
    IF CharacterNode(en) \in DOMAIN graph.nodes /\ CharacterNode(pl) \in DOMAIN graph.nodes
    THEN Distance(graph, CharacterNode(en), CharacterNode(pl))
    ELSE -1

\* C36: across an accepted player turn (a successful rotation or move of the player and
\* the pursuit step that follows it) the shortest-path distance in graph edges from the
\* enemy's node to the player's node does not grow
C36_TurnDoesNotWidenGap ==
    [][(TurnTaken /\ PursuitDistance(gridGraph, enemy, player) >= 0) =>
          /\ PursuitDistance(gridGraph', enemy', player') >= 0
          /\ PursuitDistance(gridGraph', enemy', player')
                <= PursuitDistance(gridGraph, enemy, player)]_vars

\* after the pursuit step of the second turn the enemy has left its corner and, on
\* another triangle than the player, still has a path to the player
C36_Witness ==
    /\ last.op = "keydown"
    /\ last.pursuits = 1
    /\ turnCounter = 2
    /\ <<enemy.row, enemy.col>> #
          <<GetRowCount(grid) - 1, GetRowLength(grid, GetRowCount(grid) - 1) - 1>>
    /\ ~SameTriangle(player, enemy)
    /\ PursuitDistance(gridGraph, enemy, player) >= 1

(***************************************************************************)
(* The chase of a player who only rotates.  The game is bound to a grid    *)
(* whose empty-edge subgraph is connected, enemy and player are put on any *)
(* two nodes, and from then on the only inputs are the rotation keys a and *)
(* d in the rotation phase, each followed by its key-up.  turnCounter++ on *)
(* a double stops growing at 2^53; here the counter stops at MaxTurns.     *)
(* Nothing reads it, and the chase can go on for any number of turns.      *)
(***************************************************************************)
\* MovementSystem.onKeyDown for a or d in the rotation phase, the key not held
RotationKeyDown(eventKey) ==
    /\ last.op \in {"setPlayerPosition", "keydown"}
    /\ currentPhase = ROTATION
    /\ ToLowerCase(eventKey) \notin keysPressed
    /\ Cardinality(keysPressed) < MaxKeysDown
    /\ \E h \in {HandleRotationInput(gameGrid, grid, gridGraph, player, enemy, turnCounter,
                                      ToLowerCase(eventKey))} :
          /\ player' = h.player
          /\ enemy' = h.enemy
          /\ turnCounter' = Min(h.turnCounter, MaxTurns)
          /\ last' = KeyEvent("keydown", h)
    /\ keysPressed' = keysPressed \cup {ToLowerCase(eventKey)}
    /\ UNCHANGED <<grid, gen, gameGrid, gridGraph, currentPhase>>

\* gameState.setEnemyPosition(row, col, orientation) with the values of a node of the graph
PutEnemyOnNode(n) ==
    /\ n \in DOMAIN gridGraph.nodes
    /\ DoSetEnemyPosition(n[1], n[2], n[3])

\* gameState.setPlayerPosition(row, col, orientation) with the values of a node of the graph
PutPlayerOnNode(n) ==
    /\ n \in DOMAIN gridGraph.nodes
    /\ DoSetPlayerPosition(n[1], n[2], n[3])

ChaseGrids == {g \in PathGrids : EmptyEdgesConnected(g)}

RotationKeys == {<<"a">>, <<"d">>}

NextChase ==
    \/ \E g \in ChaseGrids : DoSetGrid(g)
    \/ \E n \in PathNodes : PutEnemyOnNode(n)
    \/ \E n \in PathNodes : PutPlayerOnNode(n)
    \/ \E eventKey \in RotationKeys : RotationKeyDown(eventKey)
    \/ \E eventKey \in RotationKeys : OnKeyUp(eventKey)

\* the player keeps taking rotation turns
SpecChase ==
    /\ InitGame
    /\ [][NextChase]_vars
    /\ []<><<\E eventKey \in RotationKeys : RotationKeyDown(eventKey)>>_vars

\* C37: on a grid whose empty-edge subgraph is connected, once the player only rotates
\* the enemy occupies the player's (row, col) after finitely many turns
C37_RotatingPlayerIsCaught ==
    (last.op = "setPlayerPosition" /\ gameGrid /\ EmptyEdgesConnected(grid))
        ~> SameTriangle(player, enemy)

\* on a grid of six triangles around one point (its open shared edges form a cycle) the
\* enemy has come to the player's triangle by a pursuit step and faces the same side
C37_Witness ==
    /\ last.op = "keydown"
    /\ last.pursuits = 1
    /\ SameTriangle(player, enemy)
    /\ player.orientation = enemy.orientation
    /\ Cardinality(DOMAIN grid.triangles) = 6
    /\ Cardinality(OpenSharedEdges(grid.triangles)) = 6

\* C38: canMove(grid) returns true exactly when move(grid, d) with d forward_left or
\* forward_right would succeed from the same state, and canMove changes neither the
\* character nor the grid
C38_CanMoveAgreesWithMove ==
    [][last'.op = "canMove" =>
          /\ player' = player
          /\ grid' = grid
          /\ \A d \in {FORWARD_LEFT, FORWARD_RIGHT} :
                 last'.ret.success = Move(grid, player, d).ret.success]_vars

\* canMove returned true for a character that has moved off its start triangle, on a grid
\* that has a mirror on a shared edge
C38_Witness ==
    /\ last.op = "canMove"
    /\ last.ret.success
    /\ <<player.row, player.col>> # <<0, 0>>
    /\ \E ks \in SharedSides(grid.triangles) : grid.triangles[ks[1]].sides[ks[2]] = MIRROR

\* C39: between a keydown of key k and the next keyup of k every further keydown of k is
\* ignored: no phase change, no change of the player or the enemy, no turn increment
\* (a keydown that leaves keysPressed as it was is one of a key that was already held)
C39_HeldKeyIsIgnored ==
    [][(last'.op = "keydown" /\ keysPressed' = keysPressed) =>
          UNCHANGED <<currentPhase, player, enemy, turnCounter>>]_vars

\* the key a, held since it turned the player in the first turn, has gone down again
C39_Witness ==
    /\ gameGrid
    /\ last.op = "keydown"
    /\ last.handler = "repeat"
    /\ keysPressed = {<<"a">>}
    /\ turnCounter = 1
    /\ player.orientation # "left"
====
